---- MODULE Spec2Model ----
(***************************************************************************)
(* Verification model of routines of the aoc-2024 solutions.                *)
(*                                                                         *)
(*   Spec16 : day_16.rs  Maze::find_all_best_paths (Dijkstra over          *)
(*            (cell, direction) states, all optimal path tiles)            *)
(*   Spec20 : day_20.rs  AStar::find_path / reconstruct_path               *)
(*   Spec20p: day_20.rs  PathFinder::find_cheats (parallel sum)            *)
(*   Spec18 : day_18.rs  Grid::find_shortest_path (BFS)                    *)
(*   Spec06 : day_06.rs  Grid::simulate_guard_movement and                 *)
(*            Grid::count_possible_loop_positions                          *)
(*   Spec17 : day_17.rs  Computer::run                                     *)
(*   Spec09 : day_09.rs  Disk::rearrange                                   *)
(*   Spec05 : day_05.rs  PrintQueue::order_update                          *)
(*   Spec12 : day_12.rs  Garden::find_regions and                          *)
(*            Garden::calculate_perimeter                                  *)
(*   Spec13 : day_13.rs  ClawMachine::is_solvable                          *)
(*   Spec23 : day_23.rs  Graph::find_maximum_clique / bron_kerbosch        *)
(*   Spec11 : day_11.rs  Stones::simulate_blinking and                     *)
(*            Stones::count_evolved_stones                                 *)
(*                                                                         *)
(* An Option<T> of the source is a set with at most one element:           *)
(* None is {} and Some(v) is {v}.                                          *)
(***************************************************************************)
EXTENDS Integers, Sequences, FiniteSets, Bags, TLC

VARIABLES
    \* day_16.rs
    maze,           \* Maze { grid, start, end }: [rows, cols, walls, start, end]
    queue,          \* BinaryHeap<State>, a bag of State records
    visited,        \* visited[row][col][direction]: Option<i32>
    path_tiles,     \* FnvHashSet<MyPoint>
    final_cost,     \* Option<i32>
    pc16,           \* "loop" while the while-let loop runs, "done" after the return
    result16,       \* the returned Option<(i32, usize)>
    \* day_20.rs
    maze20,         \* Maze { grid, start, end }: [width, height, open, start, end]
    frontier,       \* AStar.frontier: BinaryHeap<PathState>
    came_from,      \* AStar.came_from: HashMap<MyPoint, Option<MyPoint>>
    cost_so_far,    \* AStar.cost_so_far: HashMap<MyPoint, usize>
    path20,         \* reconstruct_path: path
    current20,      \* reconstruct_path: current
    pc20,           \* "search", "reconstruct" or "done"
    result20,       \* the returned Option<(usize, Vec<MyPoint>)>
    \* day_18.rs
    grid18,         \* Grid { cells, size }: [size, corrupted]
    start18,        \* find_shortest_path: start
    end18,          \* find_shortest_path: end
    queue18,        \* find_shortest_path: queue (VecDeque)
    visited18,      \* find_shortest_path: visited, the set of cells set to true
    distances,      \* find_shortest_path: distances, on the cells that were set
    prev,           \* find_shortest_path: prev, on the cells that hold Some
    pc18,           \* "loop" or "done"
    result18,       \* the returned Option<(usize, Vec<MyPoint>)>
    \* day_06.rs
    grid06,         \* Grid as parsed: [width, height, obstacles, guard_position,
                    \* guard_direction]
    guard,          \* Grid.guard: [position, direction, path, steps_taken]
    visited06,      \* simulate_guard_movement: visited
    potential_positions, \* count_possible_loop_positions: potential_positions
    current_pos,    \* count_possible_loop_positions: current_pos
    current_dir,    \* count_possible_loop_positions: current_dir
    op06,           \* the method called: "simulate" or "count"
    pc06,           \* "loop", "test" (the for loop of the count) or "done"
    result06,       \* the returned usize, as an Option
    \* day_17.rs
    computer,       \* Computer: [register_a, register_b, register_c, program,
                    \* instruction_pointer, output]
    pc17,           \* "run", "done" after the loop, "panic" after a panic
    \* day_09.rs
    disk_map,       \* the digits of the text that Disk::from_str parsed
    blocks,         \* Disk.blocks
    left,           \* rearrange: left
    right,          \* rearrange: right
    pc09,           \* "start", "loop", "done" or "panic"
    \* day_05.rs
    rules,          \* PrintQueue.rules: a sequence of [before, after]
    update,         \* order_update: the argument
    ordered,        \* order_update: ordered
    changed,        \* order_update: changed
    pc05,           \* "loop" or "done"
    \* day_11.rs
    arrangement,    \* Stones.arrangement
    iterations,     \* the argument n of both methods
    current11,      \* simulate_blinking: current, pairs (value, digit count)
    i11,            \* simulate_blinking: the loop index i
    queue11,        \* count_evolved_stones: queue
    memo,           \* count_evolved_stones: memo
    total,          \* count_evolved_stones: total
    pc11,           \* "blink", "count", "done" or "overflow"
    result11,       \* the value count_evolved_stones returns, as an Option
    \* day_12.rs
    garden,         \* Garden: [grid, height, width], grid[y][x] from index 0
    regions,        \* the regions find_regions returned that are not yet measured
    perimeters,     \* the pairs (region, calculate_perimeter(region)) so far
    pc12,           \* "find", "measure" or "done"
    \* day_13.rs
    machine,        \* ClawMachine: [button_a, button_b, prize], points [x, y]
    offset,         \* is_solvable: offset
    pc13,           \* "call" or "done"
    result13,       \* the returned Option<(i64, i64)>
    \* day_23.rs
    adj_list,       \* Graph.adj_list: node -> set of nodes
    stack23,        \* the calls of bron_kerbosch in progress, innermost last
    max_clique,     \* find_maximum_clique: max_clique
    pc23,           \* "search" or "done"
    result23,       \* the returned Vec<String>, as an Option
    \* day_20.rs, PathFinder
    finder,         \* PathFinder.path and the arguments of find_cheats:
                    \* [path, max_cheat_time, min_savings]
    checked20p,     \* the build: TRUE when integer overflow is checked
    bridge,         \* par_bridge: the next start_time the shared iterator yields
    workers,        \* per worker thread: [job: Option<usize>, acc: usize]
    pc20p,          \* "run", "done" or "panic"
    result20p       \* the returned usize, as an Option

vars16 == <<maze, queue, visited, path_tiles, final_cost, pc16, result16>>
vars20 == <<maze20, frontier, came_from, cost_so_far, path20, current20, pc20, result20>>

vars18 == <<grid18, start18, end18, queue18, visited18, distances, prev, pc18, result18>>

vars06 == <<grid06, guard, visited06, potential_positions, current_pos,
            current_dir, op06, pc06, result06>>

vars17 == <<computer, pc17>>

vars09 == <<disk_map, blocks, left, right, pc09>>

vars05 == <<rules, update, ordered, changed, pc05>>

vars11 == <<arrangement, iterations, current11, i11, queue11, memo, total, pc11,
            result11>>

vars12 == <<garden, regions, perimeters, pc12>>

vars13 == <<machine, offset, pc13, result13>>

vars23 == <<adj_list, stack23, max_clique, pc23, result23>>

vars20p == <<finder, checked20p, bridge, workers, pc20p, result20p>>

vars == <<vars16, vars20, vars18, vars06, vars17, vars09, vars05,
          vars11, vars12, vars13, vars23, vars20p>>

\* what each day's steps leave alone: the state of the other days
other16 == <<vars20, vars18, vars06, vars17, vars09, vars05, vars11,
             vars12, vars13, vars23, vars20p>>
other20 == <<vars16, vars18, vars06, vars17, vars09, vars05, vars11,
             vars12, vars13, vars23, vars20p>>
other18 == <<vars16, vars20, vars06, vars17, vars09, vars05, vars11,
             vars12, vars13, vars23, vars20p>>
other06 == <<vars16, vars20, vars18, vars17, vars09, vars05, vars11,
             vars12, vars13, vars23, vars20p>>
other17 == <<vars16, vars20, vars18, vars06, vars09, vars05, vars11,
             vars12, vars13, vars23, vars20p>>
other09 == <<vars16, vars20, vars18, vars06, vars17, vars05, vars11,
             vars12, vars13, vars23, vars20p>>
other05 == <<vars16, vars20, vars18, vars06, vars17, vars09, vars11,
             vars12, vars13, vars23, vars20p>>
other11 == <<vars16, vars20, vars18, vars06, vars17, vars09, vars05,
             vars12, vars13, vars23, vars20p>>
other12 == <<vars16, vars20, vars18, vars06, vars17, vars09, vars05,
             vars11, vars13, vars23, vars20p>>
other13 == <<vars16, vars20, vars18, vars06, vars17, vars09, vars05,
             vars11, vars12, vars23, vars20p>>
other23 == <<vars16, vars20, vars18, vars06, vars17, vars09, vars05,
             vars11, vars12, vars13, vars20p>>
other20p == <<vars16, vars20, vars18, vars06, vars17, vars09, vars05,
              vars11, vars12, vars13, vars23>>

\* a day that is not running
Idle16 ==
    /\ maze = <<>> /\ queue = <<>> /\ visited = <<>> /\ path_tiles = {}
    /\ final_cost = {} /\ pc16 = "idle" /\ result16 = {}
Idle20 ==
    /\ maze20 = <<>> /\ frontier = {} /\ came_from = <<>> /\ cost_so_far = <<>>
    /\ path20 = <<>> /\ current20 = <<>> /\ pc20 = "idle" /\ result20 = {}
Idle18 ==
    /\ grid18 = <<>> /\ start18 = <<>> /\ end18 = <<>> /\ queue18 = <<>>
    /\ visited18 = {} /\ distances = <<>> /\ prev = <<>> /\ pc18 = "idle"
    /\ result18 = {}
Idle06 ==
    /\ grid06 = <<>> /\ guard = <<>> /\ visited06 = {} /\ potential_positions = {}
    /\ current_pos = <<>> /\ current_dir = "" /\ op06 = "idle" /\ pc06 = "idle"
    /\ result06 = {}
Idle17 == computer = <<>> /\ pc17 = "idle"
Idle05 ==
    /\ rules = <<>> /\ update = <<>> /\ ordered = <<>> /\ changed = FALSE
    /\ pc05 = "idle"
Idle11 ==
    /\ arrangement = <<>> /\ iterations = 0 /\ current11 = <<>> /\ i11 = 0
    /\ queue11 = <<>> /\ memo = <<>> /\ total = 0 /\ pc11 = "idle"
    /\ result11 = {}
Idle12 ==
    /\ garden = <<>> /\ regions = <<>> /\ perimeters = <<>> /\ pc12 = "idle"
Idle13 == machine = <<>> /\ offset = 0 /\ pc13 = "idle" /\ result13 = {}
Idle23 ==
    /\ adj_list = <<>> /\ stack23 = <<>> /\ max_clique = {} /\ pc23 = "idle"
    /\ result23 = {}
Idle09 ==
    /\ disk_map = <<>> /\ blocks = <<>> /\ left = 0 /\ right = 0 /\ pc09 = "idle"

Idle20p ==
    /\ finder = <<>> /\ checked20p = FALSE /\ bridge = 0 /\ workers = <<>>
    /\ pc20p = "idle" /\ result20p = {}

\* every day but one is not running
Rest16 ==
    Idle20 /\ Idle18 /\ Idle06 /\ Idle17 /\ Idle09 /\ Idle05 /\ Idle11
    /\ Idle12 /\ Idle13 /\ Idle23 /\ Idle20p
Rest20 ==
    Idle16 /\ Idle18 /\ Idle06 /\ Idle17 /\ Idle09 /\ Idle05 /\ Idle11
    /\ Idle12 /\ Idle13 /\ Idle23 /\ Idle20p
Rest18 ==
    Idle16 /\ Idle20 /\ Idle06 /\ Idle17 /\ Idle09 /\ Idle05 /\ Idle11
    /\ Idle12 /\ Idle13 /\ Idle23 /\ Idle20p
Rest06 ==
    Idle16 /\ Idle20 /\ Idle18 /\ Idle17 /\ Idle09 /\ Idle05 /\ Idle11
    /\ Idle12 /\ Idle13 /\ Idle23 /\ Idle20p
Rest17 ==
    Idle16 /\ Idle20 /\ Idle18 /\ Idle06 /\ Idle09 /\ Idle05 /\ Idle11
    /\ Idle12 /\ Idle13 /\ Idle23 /\ Idle20p
Rest09 ==
    Idle16 /\ Idle20 /\ Idle18 /\ Idle06 /\ Idle17 /\ Idle05 /\ Idle11
    /\ Idle12 /\ Idle13 /\ Idle23 /\ Idle20p
Rest05 ==
    Idle16 /\ Idle20 /\ Idle18 /\ Idle06 /\ Idle17 /\ Idle09 /\ Idle11
    /\ Idle12 /\ Idle13 /\ Idle23 /\ Idle20p
Rest11 ==
    Idle16 /\ Idle20 /\ Idle18 /\ Idle06 /\ Idle17 /\ Idle09 /\ Idle05
    /\ Idle12 /\ Idle13 /\ Idle23 /\ Idle20p
Rest12 ==
    Idle16 /\ Idle20 /\ Idle18 /\ Idle06 /\ Idle17 /\ Idle09 /\ Idle05
    /\ Idle11 /\ Idle13 /\ Idle23 /\ Idle20p
Rest13 ==
    Idle16 /\ Idle20 /\ Idle18 /\ Idle06 /\ Idle17 /\ Idle09 /\ Idle05
    /\ Idle11 /\ Idle12 /\ Idle23 /\ Idle20p
Rest23 ==
    Idle16 /\ Idle20 /\ Idle18 /\ Idle06 /\ Idle17 /\ Idle09 /\ Idle05
    /\ Idle11 /\ Idle12 /\ Idle13 /\ Idle20p
Rest20p ==
    Idle16 /\ Idle20 /\ Idle18 /\ Idle06 /\ Idle17 /\ Idle09 /\ Idle05
    /\ Idle11 /\ Idle12 /\ Idle13 /\ Idle23

(***************************************************************************)
(* Bounds of the model.                                                    *)
(***************************************************************************)
\* largest number of cells (rows * cols) of a day 16 maze
MaxCells16 == 6
\* largest number of cells inside the surrounding wall of a day 20 maze,
\* largest number of them in a row or a column, and largest number of them
\* that are no wall
MaxCells20 == 12
MaxSide20 == 4
MaxOpen20 == 7
\* largest side of a day 18 grid and largest number of its cells that are
\* not corrupted
MaxSize18 == 3
MaxFree18 == 6
\* largest width and height of a day 6 grid and largest number of obstacles
MaxSide06 == 3
MaxObstacles06 == 4
\* day 17: largest number of instructions of a program, largest absolute
\* value of an initial register, largest number in a program (8 is the
\* first invalid opcode), and largest length of the output that is followed
MaxInstr17 == 2
MaxReg17 == 1
MaxWord17 == 8
MaxOut17 == 2
\* day 9: largest number of digits of a disk map and largest digit
MaxDigits09 == 6
MaxDigit09 == 2
\* day 5: largest page number, largest number of rules and largest length
\* of an update
MaxPage05 == 3
MaxRules05 == 3
MaxUpdate05 == 3
\* day 11: largest small stone, largest number of nines of a stone 9...9,
\* largest number of stones of an arrangement and of blinks
MaxStone11 == 20
MaxNines11 == 16
MaxLen11 == 2
MaxBlinks11 == 3
\* day 12: largest height and width of a garden, and number of plant types
MaxSide12 == 3
MaxPlants12 == 2
\* day 13: largest coordinate of a button or a prize, and largest offset
MaxCoord13 == 3
MaxOffset13 == 1
\* day 23: largest number of node names
MaxNodes23 == 4
\* day 20, PathFinder: largest side of the grid the path lies in, largest
\* number of cells of the path, largest max_cheat_time and min_savings,
\* number of worker threads
MaxSide20p == 3
MaxPath20p == 7
MaxCheat20p == 2
MaxSavings20p == 4
MaxWorkers20p == 2

(***************************************************************************)
(* Helpers shared by the days.                                             *)
(***************************************************************************)
Some(v) == {v}
None == {}
Unwrap(o) == CHOOSE v \in o : TRUE

Min(S) == CHOOSE m \in S : \A n \in S : m <= n

Range(s) == {s[i] : i \in 1..Len(s)}

\* src/directions.rs: the four orthogonal directions
Dirs == {"Up", "Down", "Left", "Right"}

\* impl From<Direction> for (isize, isize): direction to (dy, dx)
Delta(d) ==
    CASE d = "Up"    -> <<-1, 0>>
      [] d = "Down"  -> <<1, 0>>
      [] d = "Left"  -> <<0, -1>>
      [] d = "Right" -> <<0, 1>>

turn_clockwise(d) ==
    CASE d = "Up"    -> "Right"
      [] d = "Right" -> "Down"
      [] d = "Down"  -> "Left"
      [] d = "Left"  -> "Up"

turn_counterclockwise(d) ==
    CASE d = "Up"    -> "Left"
      [] d = "Left"  -> "Down"
      [] d = "Down"  -> "Right"
      [] d = "Right" -> "Up"

(***************************************************************************)
(* day_16.rs                                                               *)
(***************************************************************************)
ForwardCost == 1
TurnCost == 1000

CellsOf(rows, cols) == (0..(rows - 1)) \X (0..(cols - 1))

\* The grids Maze::from_str can build within the bound: rows x cols cells, a
\* Start and an End tile (the same cell when the text has no 'S'), walls
\* anywhere else.
Dims16 ==
    {d \in (1..MaxCells16) \X (1..MaxCells16) : d[1] * d[2] <= MaxCells16}

\* Maze { grid, start, end } of d[1] rows and d[2] columns
Maze16(d, w, s, e) ==
    [rows |-> d[1], cols |-> d[2], walls |-> w, start |-> s, end |-> e]

\* the tile test of line 195: in the grid and not Tile::Wall
\* ((row as i32 + dy) as usize wraps a negative index to a huge one, which
\* the new_row < rows test rejects)
CanEnterWalls(m, p) ==
    /\ p[1] >= 0 /\ p[1] < m.rows
    /\ p[2] >= 0 /\ p[2] < m.cols
CanEnter(m, p) ==
    /\ p[1] >= 0 /\ p[1] < m.rows
    /\ p[2] >= 0 /\ p[2] < m.cols
    /\ p \notin m.walls

\* State { cost, position, direction, path }
StartState(m) ==
    [cost |-> 0, position |-> m.start, direction |-> "Right", path |-> <<m.start>>]

\* impl Ord for State: other.cost.cmp(&self.cost), so the heap's greatest
\* element is one of lowest cost; the order among equal costs is left to
\* the heap.
PopAny(q) == BagToSet(q)
PopCandidates(q) ==
    {e \in BagToSet(q) : \A f \in BagToSet(q) : e.cost <= f.cost}

\* lines 191-205: the forward successor, when the tile can be entered
ForwardStates(m, e) ==
    LET np == <<e.position[1] + Delta(e.direction)[1],
                e.position[2] + Delta(e.direction)[2]>>
    IN  IF CanEnter(m, np)
        THEN {[cost |-> e.cost + ForwardCost, position |-> np,
               direction |-> e.direction, path |-> Append(e.path, np)]}
        ELSE {}

\* lines 207-219: the two turns in place
TurnStatesCheap(e) ==
    {[cost |-> e.cost + ForwardCost, position |-> e.position,
      direction |-> nd, path |-> e.path] :
        nd \in {turn_clockwise(e.direction), turn_counterclockwise(e.direction)}}
TurnStates(e) ==
    {[cost |-> e.cost + TurnCost, position |-> e.position,
      direction |-> nd, path |-> e.path] :
        nd \in {turn_clockwise(e.direction), turn_counterclockwise(e.direction)}}

Key(e) == <<e.position, e.direction>>

\* line 164
AtEnd(m, e) == e.position = m.end

\* lines 176-179: a strictly better cost is recorded
StaleNever(v, e) == FALSE
Stale(v, e) ==
    /\ v[Key(e)] # None
    /\ Unwrap(v[Key(e)]) < e.cost

\* lines 180-183: the same cost is recorded and the position is already
\* one of the path tiles
Tied(v, pt, e) ==
    /\ v[Key(e)] # None
    /\ Unwrap(v[Key(e)]) = e.cost
    /\ e.position \in pt

\* One iteration of the while-let loop (lines 154-220) on the popped entry e:
\* the locals after it, from the locals st = [queue, visited, path_tiles,
\* final_cost] before it.
AfterPop(m, st, e) ==
    LET rest == st.queue (-) SetToBag({e})
    IN  IF AtEnd(m, e)
        THEN LET fc == IF st.final_cost = None THEN Some(e.cost) ELSE st.final_cost
             IN  [queue |-> rest,
                  visited |-> st.visited,
                  path_tiles |-> IF fc = Some(e.cost)
                                 THEN st.path_tiles \cup Range(e.path)
                                 ELSE st.path_tiles,
                  final_cost |-> fc]
        ELSE IF Stale(st.visited, e)
        THEN [st EXCEPT !.queue = rest]
        ELSE IF Tied(st.visited, st.path_tiles, e)
        THEN [st EXCEPT !.queue = rest,
                        !.path_tiles = st.path_tiles \cup Range(e.path)]
        ELSE [st EXCEPT !.queue = rest (+) SetToBag(ForwardStates(m, e))
                                       (+) SetToBag(TurnStates(e)),
                        !.visited = [st.visited EXCEPT ![Key(e)] = Some(e.cost)]]

\* line 222: final_cost.map(|cost| (cost, path_tiles.len()))
Returned(st) ==
    IF st.final_cost = None
    THEN None
    ELSE Some(<<Unwrap(st.final_cost), Cardinality(st.path_tiles)>>)

\* lines 141-152: the locals before the loop
StartNoPath(m) ==
    [queue |-> SetToBag({[StartState(m) EXCEPT !.path = <<>>]}),
     visited |-> [k \in CellsOf(m.rows, m.cols) \X Dirs |-> None],
     path_tiles |-> {},
     final_cost |-> None]
Start16(m) ==
    [queue |-> SetToBag({StartState(m)}),
     visited |-> [k \in CellsOf(m.rows, m.cols) \X Dirs |-> None],
     path_tiles |-> {},
     final_cost |-> None]

Locals16 ==
    [queue |-> queue, visited |-> visited,
     path_tiles |-> path_tiles, final_cost |-> final_cost]

SetLocals16(st) ==
    /\ queue' = st.queue
    /\ visited' = st.visited
    /\ path_tiles' = st.path_tiles
    /\ final_cost' = st.final_cost

Init16Own ==
    /\ \E d \in Dims16 :
         \E s \in CellsOf(d[1], d[2]), e \in CellsOf(d[1], d[2]) :
            \E w \in SUBSET (CellsOf(d[1], d[2]) \ {s, e}) :
                maze = Maze16(d, w, s, e)
    /\ queue = Start16(maze).queue
    /\ visited = Start16(maze).visited
    /\ path_tiles = Start16(maze).path_tiles
    /\ final_cost = Start16(maze).final_cost
    /\ pc16 = "loop"
    /\ result16 = None

\* lines 163-173: an End entry is popped
PopEnd16 ==
    /\ pc16 = "loop"
    /\ \E e \in PopCandidates(queue) :
        /\ AtEnd(maze, e)
        /\ SetLocals16(AfterPop(maze, Locals16, e))
    /\ UNCHANGED <<maze, pc16, result16>>
    /\ UNCHANGED other16

\* lines 176-179: a dominated entry is dropped
PopStale16 ==
    /\ pc16 = "loop"
    /\ \E e \in PopCandidates(queue) :
        /\ ~AtEnd(maze, e)
        /\ Stale(visited, e)
        /\ SetLocals16(AfterPop(maze, Locals16, e))
    /\ UNCHANGED <<maze, pc16, result16>>
    /\ UNCHANGED other16

\* lines 180-183: an equal-cost entry on a known path tile adds its path
PopTied16 ==
    /\ pc16 = "loop"
    /\ \E e \in PopCandidates(queue) :
        /\ ~AtEnd(maze, e)
        /\ ~Stale(visited, e)
        /\ Tied(visited, path_tiles, e)
        /\ SetLocals16(AfterPop(maze, Locals16, e))
    /\ UNCHANGED <<maze, pc16, result16>>
    /\ UNCHANGED other16

\* lines 186-219: the entry is recorded and its successors are pushed
PopExpand16 ==
    /\ pc16 = "loop"
    /\ \E e \in PopCandidates(queue) :
        /\ ~AtEnd(maze, e)
        /\ ~Stale(visited, e)
        /\ ~Tied(visited, path_tiles, e)
        /\ SetLocals16(AfterPop(maze, Locals16, e))
    /\ UNCHANGED <<maze, pc16, result16>>
    /\ UNCHANGED other16

\* line 222: the queue is empty, the loop ends and the function returns
Return16 ==
    /\ pc16 = "loop"
    /\ queue = EmptyBag
    /\ result16' = Returned(Locals16)
    /\ pc16' = "done"
    /\ UNCHANGED <<maze, queue, visited, path_tiles, final_cost>>
    /\ UNCHANGED other16

Init16 == Init16Own /\ Rest16

Next16 ==
    \/ PopEnd16
    \/ PopStale16
    \/ PopTied16
    \/ PopExpand16
    \/ Return16

Spec16 == Init16 /\ [][Next16]_vars

\* the loop body always runs to its end and the heap is popped until empty
FairSpec16 == Spec16 /\ WF_vars(Next16)

(***************************************************************************)
(* Day 16: what the claims measure the search against.  A route is a walk  *)
(* in the graph of (cell, direction) states: a forward step into a cell    *)
(* that is no wall costs 1, a 90-degree turn in place costs 1000.          *)
(***************************************************************************)
\* a cell of the grid that is no wall
OpenCell(m, p) ==
    /\ p \in CellsOf(m.rows, m.cols)
    /\ p \notin m.walls

\* the cheapest pair of each state in a set of <<state, cost>> pairs
Cheapest(P) == {x \in P : \A y \in P : y[1] = x[1] => x[2] <= y[2]}

RouteSucc(m, x) ==
    LET p == x[1][1]
        d == x[1][2]
        np == <<p[1] + Delta(d)[1], p[2] + Delta(d)[2]>>
    IN  (IF OpenCell(m, np) THEN {<<<<np, d>>, x[2] + 1>>} ELSE {})
        \cup {<<<<p, turn_clockwise(d)>>, x[2] + 1000>>,
              <<<<p, turn_counterclockwise(d)>>, x[2] + 1000>>}

RoutePred(m, x) ==
    LET p == x[1][1]
        d == x[1][2]
        bp == <<p[1] - Delta(d)[1], p[2] - Delta(d)[2]>>
    IN  (IF OpenCell(m, bp) THEN {<<<<bp, d>>, x[2] + 1>>} ELSE {})
        \cup {<<<<p, turn_clockwise(d)>>, x[2] + 1000>>,
              <<<<p, turn_counterclockwise(d)>>, x[2] + 1000>>}

RECURSIVE CostsFrom(_, _)
CostsFrom(m, P) ==
    LET Q == Cheapest(P \cup UNION {RouteSucc(m, x) : x \in P})
    IN  IF Q = P THEN P ELSE CostsFrom(m, Q)

RECURSIVE CostsTo(_, _)
CostsTo(m, P) ==
    LET Q == Cheapest(P \cup UNION {RoutePred(m, x) : x \in P})
    IN  IF Q = P THEN P ELSE CostsTo(m, Q)

\* <<state, c>>: c is the least cost of a route from Start facing Right to state
FromStart(m) == CostsFrom(m, {<<<<m.start, "Right">>, 0>>})

\* <<state, c>>: c is the least cost of a route from state to End, any facing
ToEnd(m) == CostsTo(m, {<<<<m.end, d>>, 0>> : d \in Dirs})

\* the least cost of a route from Start facing Right to End, None if there is none
MinCost(m) ==
    LET ends == {x[2] : x \in {y \in FromStart(m) : y[1][1] = m.end}}
    IN  IF ends = {} THEN None ELSE Some(Min(ends))

\* the cells on at least one route of least cost
OptimalTiles(m) ==
    LET F == FromStart(m)
        T == ToEnd(m)
        best == MinCost(m)
    IN  IF best = None THEN {}
        ELSE {x[1][1] : x \in {y \in F :
                \E z \in T : z[1] = y[1] /\ y[2] + z[2] = Unwrap(best)}}

\* the result of the run that always pops the candidate CHOOSE picks
RECURSIVE RunToEnd(_, _)
RunToEnd(m, st) ==
    IF st.queue = EmptyBag
    THEN Returned(st)
    ELSE RunToEnd(m, AfterPop(m, st, CHOOSE e \in PopCandidates(st.queue) : TRUE))

(***************************************************************************)
(* Day 16 claims                                                           *)
(***************************************************************************)
\* C1: when End can be reached, the returned cost is the least cost of any
\* route from Start facing Right to End (1 per forward step, 1000 per turn).
C1_Optimal ==
    (pc16 = "done" /\ MinCost(maze) # None) =>
        /\ result16 # None
        /\ Unwrap(result16)[1] = Unwrap(MinCost(maze))

\* C1 witness: a search has returned a cost whose best route needs two turns.
C1_Witness ==
    /\ pc16 = "done"
    /\ result16 # None
    /\ Unwrap(result16)[1] > 2 * TurnCost
    /\ maze.walls # {}

\* C2: the returned tile count is the number of cells on least-cost routes.
C2_AllOptimalTiles ==
    (pc16 = "done" /\ result16 # None) =>
        Unwrap(result16)[2] = Cardinality(OptimalTiles(maze))

\* C3: when no route joins Start to End the search ends with the queue
\* empty and returns None.
C3_UnreachableNone ==
    /\ <>(pc16 = "done")
    /\ []((pc16 = "done" /\ MinCost(maze) = None) =>
            (result16 = None /\ queue = EmptyBag))

\* C3 witness: a search of a maze whose End is walled off has returned.
C3_Witness ==
    /\ pc16 = "done"
    /\ MinCost(maze) = None
    /\ Cardinality(maze.walls) >= 2

\* C4: when start equals end the result is Some((0, 1)).
C4_Trivial ==
    (pc16 = "done" /\ maze.start = maze.end) => result16 = Some(<<0, 1>>)

\* C4 witness: a search of a maze of several cells with start = end has returned.
C4_Witness ==
    /\ pc16 = "done"
    /\ maze.start = maze.end
    /\ maze.rows * maze.cols > 1

\* C5: the result is the same whichever equal-cost entry is popped first:
\* every run returns what the run with one fixed pop order returns.
C5_TieIndependent ==
    pc16 = "done" => result16 = RunToEnd(maze, Start16(maze))

\* C6: a recorded visited cost is never replaced by a greater one.
C6_VisitedMonotone ==
    [][\A k \in DOMAIN visited :
        visited[k] # None =>
            /\ visited'[k] # None
            /\ Unwrap(visited'[k]) <= Unwrap(visited[k])]_vars

\* C6 witness: an entry dearer than the cost recorded for its state is queued.
C6_Witness ==
    \E e \in BagToSet(queue) :
        /\ visited[Key(e)] # None
        /\ e.cost > Unwrap(visited[Key(e)])

\* the entry a step of the loop takes off the heap: the successors a step
\* pushes cost more than the entry popped, so it is the one entry of which
\* the heap holds fewer copies after the step
Popped16(e) == CopiesIn(e, queue') < CopiesIn(e, queue)

\* an entry away from End whose state is recorded with a strictly lower cost
Dominated16(e) ==
    /\ e.position # maze.end
    /\ visited[<<e.position, e.direction>>] # None
    /\ \E c \in visited[<<e.position, e.direction>>] : c < e.cost

\* C18: a popped entry away from End whose cost is strictly greater than the
\* cost recorded for its state is discarded: the heap loses that entry and
\* gains nothing, and visited, path_tiles and final_cost keep their values.
C18_LazyDeletion ==
    [][\A e \in BagToSet(queue) :
        (pc16 = "loop" /\ Popped16(e) /\ Dominated16(e)) =>
            /\ queue' = queue (-) SetToBag({e})
            /\ visited' = visited
            /\ path_tiles' = path_tiles
            /\ final_cost' = final_cost]_vars

\* C18 witness: a dominated entry is the next to leave the heap while other
\* entries wait behind it and the goal cost is known.
C18_Witness ==
    /\ pc16 = "loop"
    /\ final_cost # None
    /\ BagCardinality(queue) >= 2
    /\ \A e \in BagToSet(queue) :
          (\A f \in BagToSet(queue) : e.cost <= f.cost) => Dominated16(e)

\* the successors of a pair <<state, cost>> in the search: an End state has none
SearchSucc(m, x) == IF x[1][1] = m.end THEN {} ELSE RouteSucc(m, x)

RECURSIVE SearchCosts(_, _)
SearchCosts(m, P) ==
    LET Q == Cheapest(P \cup UNION {SearchSucc(m, x) : x \in P})
    IN  IF Q = P THEN P ELSE SearchCosts(m, Q)

\* <<state, c>>: c is the least cost of a route from Start facing Right to
\* state that does not go on from End
LeastPushed(m) == SearchCosts(m, {<<<<m.start, "Right">>, 0>>})

\* C19: entries leave the heap in non-decreasing cost order: the entry popped
\* costs no more than any entry in the heap before or after the step, and an
\* entry popped for a recorded state costs no less than the recorded value;
\* no queued entry is cheaper than the cost recorded for its state; and when
\* the search returns, the cost recorded for a state away from End, which is
\* the cost of the first entry popped for it, is the least cost of any
\* entry that can be pushed for it.
C19_PopOrder ==
    /\ [](\A f \in BagToSet(queue) :
            visited[<<f.position, f.direction>>] # None =>
                Unwrap(visited[<<f.position, f.direction>>]) <= f.cost)
    /\ [](pc16 = "done" =>
            \A k \in DOMAIN visited :
                IF visited[k] # None
                THEN <<k, Unwrap(visited[k])>> \in LeastPushed(maze)
                ELSE \A x \in LeastPushed(maze) : x[1] = k => k[1] = maze.end)
    /\ [][\A e \in BagToSet(queue) :
            (pc16 = "loop" /\ Popped16(e)) =>
                /\ \A f \in BagToSet(queue) : e.cost <= f.cost
                /\ \A f \in BagToSet(queue') : e.cost <= f.cost
                /\ visited[<<e.position, e.direction>>] # None =>
                      Unwrap(visited[<<e.position, e.direction>>]) <= e.cost]_vars

\* C19 witness: before any End entry was popped, the cheapest entry of the
\* heap is a later entry for a state that was recorded after a turn.
C19_Witness ==
    /\ pc16 = "loop"
    /\ final_cost = None
    /\ \E e \in BagToSet(queue) :
          /\ \A f \in BagToSet(queue) : e.cost <= f.cost
          /\ visited[<<e.position, e.direction>>] # None
          /\ Unwrap(visited[<<e.position, e.direction>>]) >= TurnCost
          /\ Unwrap(visited[<<e.position, e.direction>>]) < e.cost

\* C20: once an End entry has been popped with cost F, no entry whose cost
\* exceeds F is expanded: no step that pops such an entry pushes a successor
\* or records a cost.
C20_StopAfterGoal ==
    [][\A e \in BagToSet(queue) :
        (/\ pc16 = "loop"
         /\ Popped16(e)
         /\ final_cost # None
         /\ e.cost > Unwrap(final_cost)) =>
            /\ queue' = queue (-) SetToBag({e})
            /\ visited' = visited]_vars

(***************************************************************************)
(* day_20.rs: AStar::find_path and AStar::reconstruct_path.  A point is    *)
(* <<x, y>>; the grid has the wall '#' on its whole border.                *)
(***************************************************************************)
Abs(n) == IF n < 0 THEN -n ELSE n

\* Point::manhattan_distance (src/points.rs is not part of the sources)
manhattan_distance(p, q) == Abs(p[1] - q[1]) + Abs(p[2] - q[2])

\* the cells inside the border of a width x height grid
Inside(w, h) == (1..(w - 2)) \X (1..(h - 2))

Dims20 ==
    {d \in (1..MaxSide20) \X (1..MaxSide20) : d[1] * d[2] <= MaxCells20}

\* A maze enclosed by walls with d[1] x d[2] cells inside the border: open
\* is the set of '.', 'S' and 'E' cells.
Maze20(d, o, s, e) ==
    [width |-> d[1] + 2, height |-> d[2] + 2, open |-> o, start |-> s, end |-> e]

\* Maze::get and Maze::is_walkable: a point outside the grid reads as '#'
is_walkable(m, p) ==
    /\ p[2] >= 0 /\ p[2] < m.height
    /\ p[1] >= 0 /\ p[1] < m.width
    /\ p \in m.open

\* Maze::neighbors, in the order of the source (p.x - 1 and p.y - 1 are
\* never taken of 0: a walkable cell is inside the border)
neighbors(m, p) ==
    SelectSeq(<<<<p[1] + 1, p[2]>>, <<p[1] - 1, p[2]>>,
                <<p[1], p[2] + 1>>, <<p[1], p[2] - 1>>>>,
              LAMBDA q : is_walkable(m, q))

\* impl Ord for PathState: a is greater than b when its cost is lower, then
\* when its x is greater, then when its y is greater
Greater20(a, b) ==
    \/ a.cost < b.cost
    \/ a.cost = b.cost /\ a.position[1] > b.position[1]
    \/ a.cost = b.cost /\ a.position[1] = b.position[1]
                       /\ a.position[2] > b.position[2]

\* BinaryHeap::pop: the greatest element
PopLeast20(f) == CHOOSE a \in f : \A b \in f \ {a} : Greater20(b, a)
Pop20(f) == CHOOSE a \in f : \A b \in f \ {a} : Greater20(a, b)

\* the relaxation with "no worse" in the place of "strictly better"
RelaxTies(m, st, cur, next) ==
    LET new_cost == st.cost_so_far[cur] + 1
    IN  IF next \notin DOMAIN st.cost_so_far \/ new_cost <= st.cost_so_far[next]
        THEN [frontier |-> st.frontier \cup
                    {[cost |-> new_cost + manhattan_distance(next, m.end),
                      position |-> next]},
              came_from |-> (next :> Some(cur)) @@ st.came_from,
              cost_so_far |-> (next :> new_cost) @@ st.cost_so_far]
        ELSE st

\* lines 183-192: one neighbour of current is relaxed; st = [frontier,
\* came_from, cost_so_far]
Relax(m, st, cur, next) ==
    LET new_cost == st.cost_so_far[cur] + 1
    IN  IF next \notin DOMAIN st.cost_so_far \/ new_cost < st.cost_so_far[next]
        THEN [frontier |-> st.frontier \cup
                    {[cost |-> new_cost + manhattan_distance(next, m.end),
                      position |-> next]},
              came_from |-> (next :> Some(cur)) @@ st.came_from,
              cost_so_far |-> (next :> new_cost) @@ st.cost_so_far]
        ELSE st

\* lines 182-193: the for loop over the neighbours
RECURSIVE RelaxAll(_, _, _, _)
RelaxAll(m, st, cur, ns) ==
    IF ns = <<>> THEN st
    ELSE RelaxAll(m, Relax(m, st, cur, Head(ns)), cur, Tail(ns))

\* AStar::new
Init20Own ==
    /\ \E d \in Dims20 :
         \E o \in SUBSET Inside(d[1] + 2, d[2] + 2) :
            /\ Cardinality(o) <= MaxOpen20
            /\ \E s \in o, e \in o :
                    maze20 = Maze20(d, o, s, e)
    /\ frontier = {[cost |-> 0, position |-> maze20.start]}
    /\ came_from = (maze20.start :> None)
    /\ cost_so_far = (maze20.start :> 0)
    /\ path20 = <<>>
    /\ current20 = <<>>
    /\ pc20 = "search"
    /\ result20 = None

\* lines 205-207: reconstruct_path is entered
EnterReconstruct20 ==
    /\ path20' = <<maze20.end>>
    /\ current20' = maze20.end
    /\ pc20' = "reconstruct"

\* lines 177-180: the end is popped, the loop breaks
PopGoal20 ==
    /\ pc20 = "search"
    /\ frontier # {}
    /\ Pop20(frontier).position = maze20.end
    /\ frontier' = frontier \ {Pop20(frontier)}
    /\ EnterReconstruct20
    /\ UNCHANGED <<maze20, came_from, cost_so_far, result20>>
    /\ UNCHANGED other20

\* lines 177-193: another cell is popped and its neighbours are relaxed
PopRelax20 ==
    /\ pc20 = "search"
    /\ frontier # {}
    /\ Pop20(frontier).position # maze20.end
    /\ LET current == Pop20(frontier)
           st == RelaxAll(maze20,
                          [frontier |-> frontier \ {current},
                           came_from |-> came_from,
                           cost_so_far |-> cost_so_far],
                          current.position,
                          neighbors(maze20, current.position))
       IN  /\ frontier' = st.frontier
           /\ came_from' = st.came_from
           /\ cost_so_far' = st.cost_so_far
    /\ UNCHANGED <<maze20, path20, current20, pc20, result20>>
    /\ UNCHANGED other20

\* line 177: the frontier is empty, the loop ends
Exhausted20 ==
    /\ pc20 = "search"
    /\ frontier = {}
    /\ EnterReconstruct20
    /\ UNCHANGED <<maze20, frontier, came_from, cost_so_far, result20>>
    /\ UNCHANGED other20

\* lines 209-213: one step back along came_from
ReconstructStep20 ==
    /\ pc20 = "reconstruct"
    /\ current20 # maze20.start
    /\ current20 \in DOMAIN came_from
    /\ came_from[current20] # None
    /\ current20' = Unwrap(came_from[current20])
    /\ path20' = Append(path20, Unwrap(came_from[current20]))
    /\ UNCHANGED <<maze20, frontier, came_from, cost_so_far, pc20, result20>>
    /\ UNCHANGED other20

\* lines 214-216: no predecessor is recorded
ReconstructNone20 ==
    /\ pc20 = "reconstruct"
    /\ current20 # maze20.start
    /\ ~(current20 \in DOMAIN came_from /\ came_from[current20] # None)
    /\ result20' = None
    /\ pc20' = "done"
    /\ UNCHANGED <<maze20, frontier, came_from, cost_so_far, path20, current20>>
    /\ UNCHANGED other20

\* path.reverse()
Reverse(s) == [i \in 1..Len(s) |-> s[Len(s) + 1 - i]]

\* lines 218-220: the start is reached
ReturnedPath(c, p) == Some(<<c, Reverse(p)>>)

ReconstructDone20 ==
    /\ pc20 = "reconstruct"
    /\ current20 = maze20.start
    /\ result20' = ReturnedPath(cost_so_far[maze20.end], path20)
    /\ pc20' = "done"
    /\ UNCHANGED <<maze20, frontier, came_from, cost_so_far, path20, current20>>
    /\ UNCHANGED other20

Init20 == Init20Own /\ Rest20

Next20 ==
    \/ PopGoal20
    \/ PopRelax20
    \/ Exhausted20
    \/ ReconstructStep20
    \/ ReconstructNone20
    \/ ReconstructDone20

Spec20 == Init20 /\ [][Next20]_vars

(***************************************************************************)
(* Day 20: the least number of steps, by breadth-first layers              *)
(***************************************************************************)
Adjacent4(p, q) == Abs(p[1] - q[1]) + Abs(p[2] - q[2]) = 1

\* the least number of 4-neighbour steps from a cell of layer to goal
\* through the cells of open, None if there is none; seen are the cells of
\* the earlier layers and d is the number of the layer
RECURSIVE Layers(_, _, _, _, _)
Layers(open, goal, seen, layer, d) ==
    IF goal \in layer THEN Some(d)
    ELSE IF layer = {} THEN None
    ELSE Layers(open, goal, seen \cup layer,
                {q \in open \ (seen \cup layer) : \E p \in layer : Adjacent4(p, q)},
                d + 1)

Steps20(m) == Layers(m.open, m.end, {}, {m.start}, 0)

(***************************************************************************)
(* Day 20 claims                                                           *)
(***************************************************************************)
\* C7: find_path returns Some((n, path)) when End can be reached, where path
\* runs from start to end over walkable 4-adjacent cells, n = path.len() - 1
\* and n is the least number of steps; None when End cannot be reached;
\* Some((0, [start])) when start = end.
C7_AStarPath ==
    pc20 = "done" =>
        /\ Steps20(maze20) = None => result20 = None
        /\ Steps20(maze20) # None =>
            /\ result20 # None
            /\ LET n == Unwrap(result20)[1]
                   path == Unwrap(result20)[2]
               IN  /\ Len(path) >= 1
                   /\ path[1] = maze20.start
                   /\ path[Len(path)] = maze20.end
                   /\ \A i \in 1..(Len(path) - 1) : Adjacent4(path[i], path[i + 1])
                   /\ \A i \in 1..Len(path) : path[i] \in maze20.open
                   /\ n = Len(path) - 1
                   /\ n = Unwrap(Steps20(maze20))
        /\ maze20.start = maze20.end => result20 = Some(<<0, <<maze20.start>>>>)

\* C7 witness: a path that is longer than the straight-line distance (it
\* goes round a wall) has been returned.
C7_Witness ==
    /\ pc20 = "done"
    /\ result20 # None
    /\ Unwrap(result20)[1] > manhattan_distance(maze20.start, maze20.end)

\* the step creates the cost_so_far entry of p or strictly lowers it
Lowered20(p) ==
    /\ p \in DOMAIN cost_so_far'
    /\ p \notin DOMAIN cost_so_far \/ cost_so_far'[p] < cost_so_far[p]

\* after the step came_from[p] names a walkable 4-neighbour q of p, and the
\* cost of p is one more than the cost q had when the step began
WrittenFrom20(p) ==
    /\ came_from'[p] # None
    /\ \E q \in came_from'[p] :
          /\ q \in maze20.open
          /\ Adjacent4(p, q)
          /\ q \in DOMAIN cost_so_far
          /\ cost_so_far'[p] = cost_so_far[q] + 1
          /\ cost_so_far'[q] = cost_so_far[q]

\* C21: in every step of find_path no cost_so_far entry is removed or
\* raised; an entry is pushed onto the frontier only for a cell whose
\* cost_so_far entry the step creates or strictly lowers; and came_from[p]
\* is written only in such a step, with a walkable neighbour q of p such
\* that cost_so_far[p] = cost_so_far[q] + 1.
C21_Relaxation ==
    [][/\ \A p \in DOMAIN cost_so_far :
            /\ p \in DOMAIN cost_so_far'
            /\ cost_so_far'[p] <= cost_so_far[p]
       /\ \A e \in frontier' \ frontier : Lowered20(e.position)
       /\ \A p \in DOMAIN came_from :
            /\ p \in DOMAIN came_from'
            /\ came_from'[p] # came_from[p] => (Lowered20(p) /\ WrittenFrom20(p))
       /\ \A p \in DOMAIN came_from' \ DOMAIN came_from :
            Lowered20(p) /\ WrittenFrom20(p)]_vars

\* C21 witness: the frontier holds an entry pushed for a cell whose
\* cost_so_far entry was strictly lowered afterwards, by a step that wrote
\* came_from for it again.
C21_Witness ==
    /\ pc20 = "search"
    /\ \E e \in frontier :
          /\ e.position \in DOMAIN cost_so_far
          /\ e.cost > cost_so_far[e.position]
                        + manhattan_distance(e.position, maze20.end)
          /\ came_from[e.position] # None

(***************************************************************************)
(* day_18.rs: Grid::find_shortest_path.  A point is <<x, y>>; cells,       *)
(* visited, distances and prev are indexed [x][y].                         *)
(***************************************************************************)
Cells18(size) == (0..(size - 1)) \X (0..(size - 1))

\* Direction::col_delta and Direction::row_delta (src/directions.rs)
col_delta(d) ==
    CASE d \in {"Up", "Down"} -> 0
      [] d = "Left" -> -1
      [] d = "Right" -> 1
row_delta(d) ==
    CASE d = "Up" -> -1
      [] d = "Down" -> 1
      [] d \in {"Left", "Right"} -> 0

\* lines 127-132
moves == <<"Up", "Down", "Left", "Right">>

\* lines 153-164: the cell one move away, when it is in the grid, not
\* visited and not corrupted (checked_add_signed is None below 0)
Step18(g, vis, cur, d) ==
    LET new_x == cur[1] + col_delta(d)
        new_y == cur[2] + row_delta(d)
    IN  IF /\ new_x >= 0 /\ new_y >= 0
           /\ new_x < g.size /\ new_y < g.size
           /\ <<new_x, new_y>> \notin vis
           /\ <<new_x, new_y>> \notin g.corrupted
        THEN Some(<<new_x, new_y>>)
        ELSE None

\* lines 152-171: the for loop over the moves; st = [queue, visited,
\* distances, prev]
RECURSIVE Explore18(_, _, _, _)
Explore18(g, st, cur, ds) ==
    IF ds = <<>> THEN st
    ELSE LET n == Step18(g, st.visited, cur, Head(ds))
         IN  IF n = None
             THEN Explore18(g, st, cur, Tail(ds))
             ELSE Explore18(g,
                    [queue |-> Append(st.queue, Unwrap(n)),
                     visited |-> st.visited \cup n,
                     distances |-> (Unwrap(n) :> st.distances[cur] + 1) @@ st.distances,
                     prev |-> (Unwrap(n) :> cur) @@ st.prev],
                    cur, Tail(ds))

\* lines 137-147: the path back along prev, then reversed
RECURSIVE WalkBack18(_, _)
WalkBack18(pv, curr) ==
    IF curr \in DOMAIN pv
    THEN <<curr>> \o WalkBack18(pv, pv[curr])
    ELSE <<curr>>

\* line 134: queue.pop_front()
PopBack18(q) == [item |-> q[Len(q)], rest |-> SubSeq(q, 1, Len(q) - 1)]
PopFront18(q) == [item |-> Head(q), rest |-> Tail(q)]

\* lines 116-124, for an in-grid start and end that are not corrupted
Init18Own ==
    /\ \E size \in 1..MaxSize18 :
         \E free \in SUBSET Cells18(size) :
            /\ Cardinality(free) <= MaxFree18
            /\ grid18 = [size |-> size, corrupted |-> Cells18(size) \ free]
            /\ \E s \in free, e \in free :
                /\ start18 = s
                /\ end18 = e
    /\ queue18 = <<start18>>
    /\ visited18 = {start18}
    /\ distances = (start18 :> 0)
    /\ prev = <<>>
    /\ pc18 = "loop"
    /\ result18 = None

\* lines 134-150: the end is popped; the path is rebuilt and returned
PopEnd18 ==
    /\ pc18 = "loop"
    /\ queue18 # <<>>
    /\ PopFront18(queue18).item = end18
    /\ queue18' = PopFront18(queue18).rest
    /\ result18' = Some(<<distances[PopFront18(queue18).item],
                          Reverse(WalkBack18(prev, PopFront18(queue18).item))>>)
    /\ pc18' = "done"
    /\ UNCHANGED <<grid18, start18, end18, visited18, distances, prev>>
    /\ UNCHANGED other18

\* lines 134, 152-171: another cell is popped and its moves are tried
PopExplore18 ==
    /\ pc18 = "loop"
    /\ queue18 # <<>>
    /\ PopFront18(queue18).item # end18
    /\ LET st == Explore18(grid18,
                           [queue |-> PopFront18(queue18).rest,
                            visited |-> visited18,
                            distances |-> distances, prev |-> prev],
                           PopFront18(queue18).item, moves)
       IN  /\ queue18' = st.queue
           /\ visited18' = st.visited
           /\ distances' = st.distances
           /\ prev' = st.prev
    /\ UNCHANGED <<grid18, start18, end18, pc18, result18>>
    /\ UNCHANGED other18

\* line 174: the queue is empty
ReturnNone18 ==
    /\ pc18 = "loop"
    /\ queue18 = <<>>
    /\ result18' = None
    /\ pc18' = "done"
    /\ UNCHANGED <<grid18, start18, end18, queue18, visited18, distances, prev>>
    /\ UNCHANGED other18

Init18 == Init18Own /\ Rest18

Next18 ==
    \/ PopEnd18
    \/ PopExplore18
    \/ ReturnNone18

Spec18 == Init18 /\ [][Next18]_vars

(***************************************************************************)
(* Day 18 claims                                                           *)
(***************************************************************************)
\* the least number of moves from start to end through cells of the grid
\* that are not corrupted
Steps18 ==
    Layers(Cells18(grid18.size) \ grid18.corrupted, end18, {}, {start18}, 0)

\* C8: find_shortest_path returns Some((steps, path)) with steps the least
\* number of moves, path of steps + 1 cells from start to end, consecutive
\* cells adjacent and not corrupted; it returns None exactly when there is
\* no route.
C8_BfsShortest ==
    pc18 = "done" =>
        /\ (result18 = None) <=> (Steps18 = None)
        /\ result18 # None =>
            LET steps == Unwrap(result18)[1]
                path == Unwrap(result18)[2]
            IN  /\ steps = Unwrap(Steps18)
                /\ Len(path) = steps + 1
                /\ path[1] = start18
                /\ path[Len(path)] = end18
                /\ \A i \in 1..(Len(path) - 1) : Adjacent4(path[i], path[i + 1])
                /\ \A i \in 1..Len(path) :
                    path[i] \in Cells18(grid18.size) \ grid18.corrupted

\* C8 witness: a route that goes round corrupted cells has been returned.
C8_Witness ==
    /\ pc18 = "done"
    /\ result18 # None
    /\ Unwrap(result18)[1] > manhattan_distance(start18, end18)

(***************************************************************************)
(* day_06.rs: Grid::simulate_guard_movement and                            *)
(* Grid::count_possible_loop_positions.  A point is <<x, y>> of i32.       *)
(***************************************************************************)
Cells06(g) == (0..(g.width - 1)) \X (0..(g.height - 1))

\* Guard::get_next_position, Guard::move_forward and lines 295-301, 344-350
NextPosition(pos, dir) ==
    CASE dir = "Up"    -> <<pos[1], pos[2] - 1>>
      [] dir = "Down"  -> <<pos[1], pos[2] + 1>>
      [] dir = "Left"  -> <<pos[1] - 1, pos[2]>>
      [] dir = "Right" -> <<pos[1] + 1, pos[2]>>

\* Guard::turn_right and lines 310-316, 357-363
turn_right(dir) ==
    CASE dir = "Up"    -> "Right"
      [] dir = "Right" -> "Down"
      [] dir = "Down"  -> "Left"
      [] dir = "Left"  -> "Up"

\* Grid::is_obstacle
is_obstacle(g, point) == point \in g.obstacles

\* Grid::in_bounds: only the upper limits are tested
in_bounds(g, point) == point[1] < g.width /\ point[2] < g.height

\* Grid::can_move_to
can_move_to(g, point) == in_bounds(g, point) /\ ~is_obstacle(g, point)

\* Guard::move_forward
MovedForward(gd) ==
    [gd EXCEPT !.position = NextPosition(gd.position, gd.direction),
               !.path = Append(gd.path, NextPosition(gd.position, gd.direction)),
               !.steps_taken = gd.steps_taken + 1]

\* Grid::simulate_with_obstacle, lines 287-325: the loop from the state
\* (pos, dir) with the states seen so far; temp are the obstacles with the
\* new one
RECURSIVE ObstacleLoop(_, _, _, _, _)
ObstacleLoop(g, temp, pos, dir, seen) ==
    IF <<pos, dir>> \in seen THEN Some(TRUE)
    ELSE LET seen2 == seen \cup {<<pos, dir>>}
             next_pos == NextPosition(pos, dir)
         IN  IF ~in_bounds(g, next_pos) THEN Some(FALSE)
             ELSE LET ndir == IF next_pos \in temp THEN turn_right(dir) ELSE dir
                      npos == IF next_pos \in temp THEN pos ELSE next_pos
                  IN  IF Cardinality(seen2) > g.width * g.height * 4
                      THEN Some(FALSE)
                      ELSE ObstacleLoop(g, temp, npos, ndir, seen2)

\* Grid::simulate_with_obstacle
simulate_with_obstacle(g, gd, obstacle) ==
    IF obstacle = gd.position \/ is_obstacle(g, obstacle)
    THEN None
    ELSE ObstacleLoop(g, g.obstacles \cup {obstacle}, gd.position, gd.direction, {})

\* Grid::from_str and Guard::new; the method called on the fresh grid
Init06Own ==
    /\ \E w \in 1..MaxSide06, h \in 1..MaxSide06 :
         \E obs \in SUBSET ((0..(w - 1)) \X (0..(h - 1))) :
            /\ Cardinality(obs) <= MaxObstacles06
            /\ \E p \in ((0..(w - 1)) \X (0..(h - 1))) \ obs, d \in Dirs :
                 grid06 = [width |-> w, height |-> h, obstacles |-> obs,
                           guard_position |-> p, guard_direction |-> d]
    /\ guard = [position |-> grid06.guard_position,
                direction |-> grid06.guard_direction,
                path |-> <<grid06.guard_position>>, steps_taken |-> 0]
    /\ op06 \in {"simulate", "count"}
    /\ visited06 = IF op06 = "simulate" THEN {guard.position} ELSE {}
    /\ potential_positions = {}
    /\ current_pos = guard.position
    /\ current_dir = guard.direction
    /\ pc06 = "loop"
    /\ result06 = None

\* lines 242-247, 263: the next position is out of bounds, the loop breaks
SimLeave06 ==
    /\ op06 = "simulate" /\ pc06 = "loop"
    /\ ~in_bounds(grid06, NextPosition(guard.position, guard.direction))
    /\ result06' = Some(Cardinality(visited06))
    /\ pc06' = "done"
    /\ UNCHANGED <<grid06, guard, visited06, potential_positions, current_pos,
                   current_dir, op06>>
    /\ UNCHANGED other06

\* lines 249-251, 257: the guard moves forward, the step limit is not passed
SimMove06 ==
    /\ op06 = "simulate" /\ pc06 = "loop"
    /\ can_move_to(grid06, NextPosition(guard.position, guard.direction))
    /\ guard' = MovedForward(guard)
    /\ visited06' = visited06 \cup {guard'.position}
    /\ ~(guard'.steps_taken > grid06.width * grid06.height * 4)
    /\ UNCHANGED <<grid06, potential_positions, current_pos, current_dir, op06,
                   pc06, result06>>
    /\ UNCHANGED other06

\* lines 249-251, 257-260, 263: the guard moves forward and passes the step
\* limit, the loop breaks
SimMoveLimit06 ==
    /\ op06 = "simulate" /\ pc06 = "loop"
    /\ can_move_to(grid06, NextPosition(guard.position, guard.direction))
    /\ guard' = MovedForward(guard)
    /\ visited06' = visited06 \cup {guard'.position}
    /\ guard'.steps_taken > grid06.width * grid06.height * 4
    /\ result06' = Some(Cardinality(visited06'))
    /\ pc06' = "done"
    /\ UNCHANGED <<grid06, potential_positions, current_pos, current_dir, op06>>
    /\ UNCHANGED other06

\* lines 252-254: an obstacle is ahead, the guard turns right (steps_taken
\* is as the last iteration left it, not above the limit)
SimTurn06 ==
    /\ op06 = "simulate" /\ pc06 = "loop"
    /\ in_bounds(grid06, NextPosition(guard.position, guard.direction))
    /\ ~can_move_to(grid06, NextPosition(guard.position, guard.direction))
    /\ guard' = [guard EXCEPT !.direction = turn_right(guard.direction)]
    /\ UNCHANGED <<grid06, visited06, potential_positions, current_pos,
                   current_dir, op06, pc06, result06>>
    /\ UNCHANGED other06

\* lines 343-354: the first loop of the count ends at the bounds test
CollectLeave06 ==
    /\ op06 = "count" /\ pc06 = "loop"
    /\ ~in_bounds(grid06, NextPosition(current_pos, current_dir))
    /\ pc06' = "test"
    /\ UNCHANGED <<grid06, guard, visited06, potential_positions, current_pos,
                   current_dir, op06, result06>>
    /\ UNCHANGED other06

\* lines 356-363: an obstacle is ahead (the size test of line 369 was
\* passed by the iteration that last inserted)
CollectTurn06 ==
    /\ op06 = "count" /\ pc06 = "loop"
    /\ in_bounds(grid06, NextPosition(current_pos, current_dir))
    /\ is_obstacle(grid06, NextPosition(current_pos, current_dir))
    /\ current_dir' = turn_right(current_dir)
    /\ UNCHANGED <<grid06, guard, visited06, potential_positions, current_pos,
                   op06, pc06, result06>>
    /\ UNCHANGED other06

\* lines 364-371: the next position is recorded and taken; the loop breaks
\* when more positions are recorded than the grid has cells
CollectMove06 ==
    /\ op06 = "count" /\ pc06 = "loop"
    /\ in_bounds(grid06, NextPosition(current_pos, current_dir))
    /\ ~is_obstacle(grid06, NextPosition(current_pos, current_dir))
    /\ potential_positions' =
            potential_positions \cup {NextPosition(current_pos, current_dir)}
    /\ current_pos' = NextPosition(current_pos, current_dir)
    /\ pc06' = IF Cardinality(potential_positions') > grid06.width * grid06.height
               THEN "test" ELSE "loop"
    /\ UNCHANGED <<grid06, guard, visited06, current_dir, op06, result06>>
    /\ UNCHANGED other06

\* lines 377-387: every recorded position is tested and the loops counted
CountLoops06 ==
    /\ op06 = "count" /\ pc06 = "test"
    /\ result06' = Some(Cardinality(
            {t \in potential_positions :
                simulate_with_obstacle(grid06, guard, t) = Some(TRUE)}))
    /\ pc06' = "done"
    /\ UNCHANGED <<grid06, guard, visited06, potential_positions, current_pos,
                   current_dir, op06>>
    /\ UNCHANGED other06

Init06 == Init06Own /\ Rest06

Next06 ==
    \/ SimLeave06
    \/ SimMove06
    \/ SimMoveLimit06
    \/ SimTurn06
    \/ CollectLeave06
    \/ CollectTurn06
    \/ CollectMove06
    \/ CountLoops06

Spec06 == Init06 /\ [][Next06]_vars

(***************************************************************************)
(* Day 6: the patrol on the grid, against which the claims are measured    *)
(***************************************************************************)
\* the states (position, direction) of the patrol from (pos, dir) among the
\* obstacles obs, up to the step that leaves the grid or repeats a state
RECURSIVE Patrol(_, _, _, _, _)
Patrol(g, obs, pos, dir, seen) ==
    IF <<pos, dir>> \in seen THEN seen
    ELSE LET next_pos == NextPosition(pos, dir)
         IN  IF next_pos \notin Cells06(g) THEN seen \cup {<<pos, dir>>}
             ELSE IF next_pos \in obs
             THEN Patrol(g, obs, pos, turn_right(dir), seen \cup {<<pos, dir>>})
             ELSE Patrol(g, obs, next_pos, dir, seen \cup {<<pos, dir>>})

\* the patrol never leaves the grid
PatrolsForever(g, obs, pos, dir) ==
    \A s \in Patrol(g, obs, pos, dir, {}) :
        NextPosition(s[1], s[2]) \in Cells06(g)

\* the cells of the patrol of the parsed grid
PatrolCells(g) ==
    {s[1] : s \in Patrol(g, g.obstacles, g.guard_position, g.guard_direction, {})}

(***************************************************************************)
(* Day 6 claims                                                            *)
(***************************************************************************)
\* C9: the guard never occupies and the count never includes a position
\* outside the grid, and the value returned is the number of distinct cells
\* of the patrol up to the step that would leave the grid by any edge.
C9_PatrolCount ==
    op06 = "simulate" =>
        /\ guard.position \in Cells06(grid06)
        /\ visited06 \subseteq Cells06(grid06)
        /\ pc06 = "done" => result06 = Some(Cardinality(PatrolCells(grid06)))

\* C10: the count is the number of cells of the grid, other than the start
\* and the obstacles, where one more obstacle makes the guard patrol
\* forever; every position tested lies inside the grid.
C10_LoopPositions ==
    op06 = "count" =>
        /\ potential_positions \subseteq Cells06(grid06)
        /\ pc06 = "done" =>
            result06 = Some(Cardinality(
                {c \in Cells06(grid06) \ (grid06.obstacles \cup {grid06.guard_position}) :
                    PatrolsForever(grid06, grid06.obstacles \cup {c},
                                   grid06.guard_position, grid06.guard_direction)}))

(***************************************************************************)
(* Day 17: Computer::run (day_17.rs)                                       *)
(*                                                                         *)
(* Registers are i64.  The model keeps them small (at most 8 in absolute   *)
(* value: every instruction keeps a value below 8 there), so no i64        *)
(* operation wraps; what the width decides is the shift `1 << n`, whose    *)
(* amount is masked to six bits in a build without overflow checks and     *)
(* panics in a build with them when n is not in 0..63.                     *)
(***************************************************************************)
\* i64 `/` with a positive divisor: the quotient truncated towards zero
TruncDiv(a, b) == IF a >= 0 THEN a \div b ELSE -((-a) \div b)

\* i64 `%` with a positive divisor: the remainder has the sign of the dividend
Rem(a, b) == a - b * TruncDiv(a, b)

RECURSIVE XorNat(_, _)
XorNat(a, b) ==
    IF a = 0 THEN b
    ELSE IF b = 0 THEN a
    ELSE (((a % 2) + (b % 2)) % 2) + 2 * XorNat(a \div 2, b \div 2)

\* i64 `^` on two's complement values: ~x = -x - 1
Xor(a, b) ==
    CASE a >= 0 /\ b >= 0 -> XorNat(a, b)
      [] a < 0 /\ b >= 0  -> -XorNat(-a - 1, b) - 1
      [] a >= 0 /\ b < 0  -> -XorNat(a, -b - 1) - 1
      [] OTHER            -> XorNat(-a - 1, -b - 1)

\* Computer::get_combo_value: None stands for the panic
get_combo_value(c, operand) ==
    CASE operand \in 0..3 -> Some(operand)
      [] operand = 4      -> Some(c.register_a)
      [] operand = 5      -> Some(c.register_b)
      [] operand = 6      -> Some(c.register_c)
      [] OTHER            -> None

\* a / (1 << n) for a shift amount n in 0..63 and |a| < 2^31: 1 << 63 is
\* i64::MIN, and every divisor from 2^31 on gives 0
DivShift(a, n) == IF n <= 30 THEN TruncDiv(a, 2 ^ n) ELSE 0

\* register_a / (1 << get_combo_value(operand)): the values the builds can
\* produce (the amount is taken modulo 64 without overflow checks)
DivResults(c, operand) ==
    {DivShift(c.register_a, (n % 64)) : n \in get_combo_value(c, operand)}

\* the division panics: invalid combo operand, or a shift amount outside
\* 0..63 in a build with overflow checks
DivPanics(c, operand) ==
    \/ get_combo_value(c, operand) = None
    \/ \E n \in get_combo_value(c, operand) : n \notin 0..63

\* Computer::new on a parsed ProgramInput
Init17Own ==
    /\ \E a \in (-MaxReg17)..MaxReg17, b \in (-MaxReg17)..MaxReg17,
          c \in (-MaxReg17)..MaxReg17 :
         \E n \in 1..(2 * MaxInstr17) :
            \E p \in [1..n -> 0..MaxWord17] :
                computer = [register_a |-> a, register_b |-> b, register_c |-> c,
                            program |-> p, instruction_pointer |-> 0,
                            output |-> <<>>]
    /\ pc17 = "run"

\* the loop condition holds
Running17 ==
    /\ pc17 = "run"
    /\ computer.instruction_pointer < Len(computer.program)

\* program[instruction_pointer + 1] exists
HasOperand17 == computer.instruction_pointer + 1 < Len(computer.program)

opcode17 == computer.program[computer.instruction_pointer + 1]
operand17 == computer.program[computer.instruction_pointer + 2]

\* an instruction `code` is fetched with its operand
Fetched17(code) == Running17 /\ HasOperand17 /\ opcode17 = code

Adv17 ==
    /\ Fetched17(0)
    /\ \E r \in DivResults(computer, operand17) :
         computer' = [computer EXCEPT !.register_a = r,
                                      !.instruction_pointer = @ + 2]
    /\ UNCHANGED <<pc17, other17>>

Bxl17 ==
    /\ Fetched17(1)
    /\ computer' = [computer EXCEPT !.register_b = Xor(@, operand17),
                                    !.instruction_pointer = @ + 2]
    /\ UNCHANGED <<pc17, other17>>

Bst17 ==
    /\ Fetched17(2)
    /\ \E v \in get_combo_value(computer, operand17) :
         computer' = [computer EXCEPT !.register_b = Rem(v, 8),
                                      !.instruction_pointer = @ + 2]
    /\ UNCHANGED <<pc17, other17>>

Jnz17 ==
    /\ Fetched17(3)
    /\ computer' = [computer EXCEPT !.instruction_pointer =
                        IF computer.register_a # 0 THEN operand17 ELSE @ + 2]
    /\ UNCHANGED <<pc17, other17>>

Bxc17 ==
    /\ Fetched17(4)
    /\ computer' = [computer EXCEPT !.register_b = Xor(@, computer.register_c),
                                    !.instruction_pointer = @ + 2]
    /\ UNCHANGED <<pc17, other17>>

Out17 ==
    /\ Fetched17(5)
    /\ Len(computer.output) < MaxOut17
    /\ \E v \in get_combo_value(computer, operand17) :
         computer' = [computer EXCEPT !.output = Append(@, Rem(v, 8)),
                                      !.instruction_pointer = @ + 2]
    /\ UNCHANGED <<pc17, other17>>

Bdv17 ==
    /\ Fetched17(6)
    /\ \E r \in DivResults(computer, operand17) :
         computer' = [computer EXCEPT !.register_b = r,
                                      !.instruction_pointer = @ + 2]
    /\ UNCHANGED <<pc17, other17>>

Cdv17 ==
    /\ Fetched17(7)
    /\ \E r \in DivResults(computer, operand17) :
         computer' = [computer EXCEPT !.register_c = r,
                                      !.instruction_pointer = @ + 2]
    /\ UNCHANGED <<pc17, other17>>

\* the index past the end, an invalid opcode, an invalid combo operand or a
\* shift overflow
Panic17 ==
    /\ Running17
    /\ \/ ~HasOperand17
       \/ /\ HasOperand17
          /\ \/ opcode17 \notin 0..7
             \/ opcode17 \in {0, 6, 7} /\ DivPanics(computer, operand17)
             \/ opcode17 \in {2, 5} /\ get_combo_value(computer, operand17) = None
    /\ pc17' = "panic"
    /\ UNCHANGED <<computer, other17>>

\* the loop condition fails: run returns
Halt17 ==
    /\ pc17 = "run"
    /\ computer.instruction_pointer >= Len(computer.program)
    /\ pc17' = "done"
    /\ UNCHANGED <<computer, other17>>

Init17 == Init17Own /\ Rest17

Next17 ==
    \/ Adv17
    \/ Bxl17
    \/ Bst17
    \/ Jnz17
    \/ Bxc17
    \/ Out17
    \/ Bdv17
    \/ Cdv17
    \/ Panic17
    \/ Halt17

Spec17 == Init17 /\ [][Next17]_vars

(***************************************************************************)
(* Day 17 claims                                                           *)
(***************************************************************************)
\* C11: every value appended to output by the out instruction is in 0..=7,
\* and after a bst instruction register B is in 0..=7, for every initial
\* register value, negative ones included.
C11_ThreeBit ==
    [][/\ Out17 => computer'.output[Len(computer'.output)] \in 0..7
       /\ Bst17 => computer'.register_b \in 0..7]_vars

(***************************************************************************)
(* Day 9: Disk::rearrange (day_09.rs)                                      *)
(*                                                                         *)
(* A Block is a sequence: Empty is <<>> and Filled(v) is <<v>>.  Indices   *)
(* of the source start at 0, those of the sequence `blocks` at 1.          *)
(***************************************************************************)
Empty == <<>>
Filled(v) == <<v>>

\* Block::is_empty
is_empty(block) == block = Empty

\* n copies of a block
Repeat(block, n) == [i \in 1..n |-> block]

\* Disk::from_str on one line of digits: the digits at even positions are
\* file sizes, those at odd positions sizes of free space
RECURSIVE ParseBlocks(_, _, _, _)
ParseBlocks(digits, i, file_index, acc) ==
    IF i >= Len(digits) THEN acc
    ELSE IF i % 2 = 0
         THEN ParseBlocks(digits, i + 1, file_index + 1,
                          acc \o Repeat(Filled(file_index), digits[i + 1]))
         ELSE ParseBlocks(digits, i + 1, file_index,
                          acc \o Repeat(Empty, digits[i + 1]))

from_str09(digits) == ParseBlocks(digits, 0, 0, <<>>)

\* a search that takes the next index without looking at the block
GetFirstEmptyBlind(bs, start) == Some(start + 1)

\* Disk::get_first_empty: the index of the first empty block from start on,
\* None when unwrap panics
get_first_empty(bs, start) ==
    LET found == {i \in start..(Len(bs) - 1) : is_empty(bs[i + 1])}
    IN IF found = {} THEN None ELSE Some(Min(found))

\* Vec::swap
swap(bs, a, b) == [bs EXCEPT ![a + 1] = bs[b + 1], ![b + 1] = bs[a + 1]]

Init09Own ==
    /\ \E n \in 1..MaxDigits09 : disk_map \in [1..n -> 0..MaxDigit09]
    /\ blocks = from_str09(disk_map)
    /\ left = 0
    /\ right = 0
    /\ pc09 = "start"

\* rearrange: let mut left ..., let mut right ...
Start09 ==
    /\ pc09 = "start"
    /\ \E l \in get_first_empty(blocks, 0) : left' = l
    /\ right' = Len(blocks) - 1
    /\ pc09' = "loop"
    /\ UNCHANGED <<disk_map, blocks, other09>>

\* rearrange: get_first_empty(0) panics, the disk has no empty block
Panic09 ==
    /\ pc09 = "start"
    /\ get_first_empty(blocks, 0) = None
    /\ pc09' = "panic"
    /\ UNCHANGED <<disk_map, blocks, left, right, other09>>

\* rearrange: the loop body
Swap09 ==
    /\ pc09 = "loop"
    /\ left < right
    /\ blocks' = swap(blocks, right, left)
    /\ \E l \in get_first_empty(blocks', left) : left' = l
    /\ right' = right - 1
    /\ UNCHANGED <<disk_map, pc09, other09>>

\* rearrange: the loop condition fails
Return09 ==
    /\ pc09 = "loop"
    /\ ~(left < right)
    /\ pc09' = "done"
    /\ UNCHANGED <<disk_map, blocks, left, right, other09>>

Init09 == Init09Own /\ Rest09

Next09 ==
    \/ Start09
    \/ Panic09
    \/ Swap09
    \/ Return09

Spec09 == Init09 /\ [][Next09]_vars

(***************************************************************************)
(* Day 9: the compaction the claim describes                               *)
(***************************************************************************)
\* the positions (from 1) of the blocks of bs that are filled, resp. empty
FilledAt(bs) == {i \in 1..Len(bs) : bs[i] # Empty}
EmptyAt(bs) == {i \in 1..Len(bs) : bs[i] = Empty}

\* the bag of the blocks of bs
BlockBag(bs) ==
    [b \in Range(bs) |-> Cardinality({i \in 1..Len(bs) : bs[i] = b})]

\* the k-th smallest, resp. k-th largest, element of a set of numbers
KthLeast(S, k) == CHOOSE x \in S : Cardinality({y \in S : y < x}) = k - 1
KthGreatest(S, k) == CHOOSE x \in S : Cardinality({y \in S : y > x}) = k - 1

\* bs compacted: with n filled blocks, the gaps among the first n positions
\* receive, from left to right, the filled blocks beyond position n taken
\* from right to left
Compacted(bs) ==
    LET n == Cardinality(FilledAt(bs))
        gaps == {i \in EmptyAt(bs) : i <= n}
        movers == {i \in FilledAt(bs) : i > n}
    IN [i \in 1..Len(bs) |->
          IF i > n THEN Empty
          ELSE IF i \in gaps
               THEN bs[KthGreatest(movers, Cardinality({g \in gaps : g <= i}))]
               ELSE bs[i]]

after_map(rs, upd, page) ==
    {rs[k].after : k \in {k \in 1..Len(rs) :
        /\ rs[k].before = page
        /\ rs[k].before \in Range(upd)
        /\ rs[k].after \in Range(upd)}}

\* PrintQueue::is_valid_update
is_valid_update(rs, upd) ==
    \A i \in 1..Len(upd) :
        after_map(rs, upd, upd[i]) \subseteq {upd[j] : j \in (i + 1)..Len(upd)}

\* order_update: the loop over the rules at index i (from 0); the result
\* is the pair of the vector and the flag `changed`
RECURSIVE RulesAt(_, _, _, _)
RulesAt(rs, k, i, st) ==
    IF k > Len(rs) THEN st
    ELSE LET o == st[1]
         IN IF o[i + 1] = rs[k].after /\ o[i + 2] = rs[k].before
            THEN RulesAt(rs, k + 1, i,
                         <<[o EXCEPT ![i + 1] = o[i + 2], ![i + 2] = o[i + 1]], TRUE>>)
            ELSE RulesAt(rs, k + 1, i, st)

\* order_update: for i in 0..ordered.len() - 1
RECURSIVE Pass(_, _, _)
Pass(rs, i, st) ==
    IF i >= Len(st[1]) - 1 THEN st
    ELSE Pass(rs, i + 1, RulesAt(rs, 1, i, st))

Init05Own ==
    /\ \E n \in 0..MaxRules05 :
         rules \in [1..n -> [before : 1..MaxPage05, after : 1..MaxPage05]]
    /\ \E n \in 1..MaxUpdate05 : update \in [1..n -> 1..MaxPage05]
    /\ ordered = update
    /\ changed = TRUE
    /\ pc05 = "loop"

\* one turn of the while loop in which a swap is made
PassSwap05 ==
    /\ pc05 = "loop"
    /\ changed
    /\ LET st == Pass(rules, 0, <<ordered, FALSE>>)
       IN /\ st[2]
          /\ ordered' = st[1]
          /\ changed' = TRUE
    /\ UNCHANGED <<rules, update, pc05, other05>>

\* one turn of the while loop in which no swap is made
PassClean05 ==
    /\ pc05 = "loop"
    /\ changed
    /\ LET st == Pass(rules, 0, <<ordered, FALSE>>)
       IN /\ ~st[2]
          /\ ordered' = st[1]
          /\ changed' = FALSE
    /\ UNCHANGED <<rules, update, pc05, other05>>

\* the loop ends and ordered is returned
Return05 ==
    /\ pc05 = "loop"
    /\ ~changed
    /\ pc05' = "done"
    /\ UNCHANGED <<rules, update, ordered, changed, other05>>

Init05 == Init05Own /\ Rest05

Next05 ==
    \/ PassSwap05
    \/ PassClean05
    \/ Return05

Spec05 == Init05 /\ [][Next05]_vars

(***************************************************************************)
(* Day 5 claims                                                            *)
(***************************************************************************)
\* the number of times page p occurs in s
Occurrences(s, p) == Cardinality({i \in 1..Len(s) : s[i] = p})

\* t is a permutation of s
Permutation(s, t) ==
    /\ Len(s) = Len(t)
    /\ \A p \in Range(s) \cup Range(t) : Occurrences(s, p) = Occurrences(t, p)

\* C13: order_update returns a permutation of the update that satisfies
\* is_valid_update under the same rules, also when the violated rule
\* relates two pages that are not adjacent in the update.
C13_OrderedValid ==
    pc05 = "done" =>
        /\ Permutation(update, ordered)
        /\ is_valid_update(rules, ordered)

(***************************************************************************)
(* Day 11: Stones::simulate_blinking and Stones::count_evolved_stones      *)
(* (day_11.rs)                                                             *)
(*                                                                         *)
(* The stones grow beyond 10^15, so a usize is held as the sequence of its *)
(* decimal digits, most significant first and without leading zeros        *)
(* (0 is <<0>>).  to_string is then the sequence itself, and its length    *)
(* the exact number of digits.                                             *)
(***************************************************************************)
\* the digits of a natural number
RECURSIVE NatDigits(_)
NatDigits(n) == IF n < 10 THEN <<n>> ELSE Append(NatDigits(n \div 10), n % 10)

\* the stone 9...9 of k digits
Nines(k) == [i \in 1..k |-> 9]

\* str::parse::<usize>: leading zeros do not count
RECURSIVE parse(_)
parse(ds) == IF Len(ds) > 1 /\ ds[1] = 0 THEN parse(Tail(ds)) ELSE ds

\* MULTIPLIER of simulate_blinking, the literal 2024 of the recursion
MULTIPLIER == 2024

\* value * 2024, digit by digit from the right
RECURSIVE MulFrom(_, _, _, _)
MulFrom(v, i, carry, acc) ==
    IF i = 0
    THEN IF carry = 0 THEN acc ELSE NatDigits(carry) \o acc
    ELSE LET t == v[i] * MULTIPLIER + carry
         IN MulFrom(v, i - 1, t \div 10, <<t % 10>> \o acc)

Times2024(v) == MulFrom(v, Len(v), 0, <<>>)

\* usize::MAX on a 64-bit target
USIZE_MAX == <<1, 8, 4, 4, 6, 7, 4, 4, 0, 7, 3, 7, 0, 9, 5, 5, 1, 6, 1, 5>>

\* v does not fit a usize: the multiplication that gives v overflows
Overflows(v) ==
    \/ Len(v) > Len(USIZE_MAX)
    \/ /\ Len(v) = Len(USIZE_MAX)
       /\ \E i \in 1..Len(v) :
            /\ \A j \in 1..(i - 1) : v[j] = USIZE_MAX[j]
            /\ v[i] > USIZE_MAX[i]

\* (x as f64).log10() is the integer Len(v), one too many, for these x:
\* x = 10^k - 1 with k >= 15, whose logarithm (or x itself, from 2^53 on)
\* rounds to the power of ten, and 10^15 - 2.  For every other value that a
\* run of the model reaches the logarithm stays below the next integer.
RoundsUp(v) ==
    \/ Len(v) >= 15 /\ v = Nines(Len(v))
    \/ v = [Nines(15) EXCEPT ![15] = 8]

\* (x as f64).log10() as u32 + 1, for x > 0
LogDigits(v) == IF RoundsUp(v) THEN Len(v) + 1 ELSE Len(v)

\* simulate_blinking: the digit count paired with a value
DigitCount(v) == IF v = <<0>> THEN 1 ELSE LogDigits(v)

\* value / 10^h and value % 10^h
DivPow10(v, h) == IF h >= Len(v) THEN <<0>> ELSE SubSeq(v, 1, Len(v) - h)
ModPow10(v, h) ==
    IF h >= Len(v) THEN v ELSE parse(SubSeq(v, Len(v) - h + 1, Len(v)))

\* simulate_blinking: what one stone (value, digits) pushes onto next
BlinkOne(st) ==
    LET value == st[1]
        digits == st[2]
    IN IF value = <<0>> THEN << <<(<<1>>), 1>> >>
       ELSE IF digits % 2 = 0
            THEN LET h == digits \div 2
                     l == DivPow10(value, h)
                     r == ModPow10(value, h)
                 IN << <<l, DigitCount(l)>>, <<r, DigitCount(r)>> >>
            ELSE LET new_value == Times2024(value)
                 IN << <<new_value, LogDigits(new_value)>> >>

\* simulate_blinking: one iteration of the outer loop
RECURSIVE BlinkAll(_)
BlinkAll(cur) ==
    IF cur = <<>> THEN <<>> ELSE BlinkOne(Head(cur)) \o BlinkAll(Tail(cur))

\* value * MULTIPLIER overflows for a stone of cur
BlinkOverflows(cur) ==
    \E k \in 1..Len(cur) :
        /\ cur[k][1] # <<0>>
        /\ cur[k][2] % 2 # 0
        /\ Overflows(Times2024(cur[k][1]))

\* Stones::count_evolved_stones_recursive: the count, the memo after the
\* call, and whether stone * 2024 overflowed on the way
RECURSIVE count_evolved_stones_recursive(_, _, _)
count_evolved_stones_recursive(stone, iters, m) ==
    IF iters = 0 THEN [count |-> 1, memo |-> m, overflow |-> FALSE]
    ELSE IF <<stone, iters>> \in DOMAIN m
    THEN [count |-> m[<<stone, iters>>], memo |-> m, overflow |-> FALSE]
    ELSE LET r ==
               IF stone = <<0>>
               THEN count_evolved_stones_recursive(<<1>>, iters - 1, m)
               ELSE IF Len(stone) % 2 = 0
               THEN LET mid == Len(stone) \div 2
                        l == count_evolved_stones_recursive(
                                parse(SubSeq(stone, 1, mid)), iters - 1, m)
                        rr == count_evolved_stones_recursive(
                                parse(SubSeq(stone, mid + 1, Len(stone))),
                                iters - 1, l.memo)
                    IN IF l.overflow THEN l
                       ELSE [count |-> l.count + rr.count, memo |-> rr.memo,
                             overflow |-> rr.overflow]
               ELSE IF Overflows(Times2024(stone))
               THEN [count |-> 0, memo |-> m, overflow |-> TRUE]
               ELSE count_evolved_stones_recursive(Times2024(stone),
                                                   iters - 1, m)
         IN IF r.overflow THEN r
            ELSE [count |-> r.count,
                  memo |-> (<<stone, iters>> :> r.count) @@ r.memo,
                  overflow |-> FALSE]

\* the stones of the model
Stones11 ==
    {NatDigits(n) : n \in 0..MaxStone11} \cup {Nines(k) : k \in 1..MaxNines11}

\* both methods are entered on the same arrangement with the same n
Init11Own ==
    /\ \E n \in 1..MaxLen11 : arrangement \in [1..n -> Stones11]
    /\ iterations \in 0..MaxBlinks11
    /\ current11 = [k \in 1..Len(arrangement) |->
                    <<arrangement[k], DigitCount(arrangement[k])>>]
    /\ i11 = 0
    /\ queue11 = [k \in 1..Len(arrangement) |-> <<arrangement[k], iterations>>]
    /\ memo = <<>>
    /\ total = 0
    /\ pc11 = "blink"
    /\ result11 = None

\* simulate_blinking: one iteration of `for i in 0..n`
Blink11 ==
    /\ pc11 = "blink"
    /\ i11 < iterations
    /\ ~BlinkOverflows(current11)
    /\ current11' = BlinkAll(current11)
    /\ i11' = i11 + 1
    /\ UNCHANGED <<arrangement, iterations, queue11, memo, total, pc11,
                   result11, other11>>

\* simulate_blinking: value * MULTIPLIER overflows; a panic with overflow
\* checks, a wrapped value without them: the run is not followed further
BlinkOverflow11 ==
    /\ pc11 = "blink"
    /\ i11 < iterations
    /\ BlinkOverflows(current11)
    /\ pc11' = "overflow"
    /\ UNCHANGED <<arrangement, iterations, current11, i11, queue11, memo, total,
                   result11, other11>>

\* simulate_blinking: the loop is over, the arrangement is replaced
BlinkReturn11 ==
    /\ pc11 = "blink"
    /\ i11 = iterations
    /\ arrangement' = [k \in 1..Len(current11) |-> current11[k][1]]
    /\ pc11' = "count"
    /\ UNCHANGED <<iterations, current11, i11, queue11, memo, total, result11,
                   other11>>

\* count_evolved_stones: one stone popped from the queue and counted
CountStone11 ==
    /\ pc11 = "count"
    /\ queue11 # <<>>
    /\ LET r == count_evolved_stones_recursive(Head(queue11)[1],
                                               Head(queue11)[2], memo)
       IN /\ ~r.overflow
          /\ total' = total + r.count
          /\ memo' = r.memo
    /\ queue11' = Tail(queue11)
    /\ UNCHANGED <<arrangement, iterations, current11, i11, pc11, result11,
                   other11>>

\* count_evolved_stones: stone * 2024 overflows in the recursion
CountOverflow11 ==
    /\ pc11 = "count"
    /\ queue11 # <<>>
    /\ count_evolved_stones_recursive(Head(queue11)[1], Head(queue11)[2],
                                      memo).overflow
    /\ pc11' = "overflow"
    /\ UNCHANGED <<arrangement, iterations, current11, i11, queue11, memo, total,
                   result11, other11>>

\* count_evolved_stones: the queue is empty, total is returned
CountReturn11 ==
    /\ pc11 = "count"
    /\ queue11 = <<>>
    /\ result11' = Some(total)
    /\ pc11' = "done"
    /\ UNCHANGED <<arrangement, iterations, current11, i11, queue11, memo, total,
                   other11>>

Init11 == Init11Own /\ Rest11

Next11 ==
    \/ Blink11
    \/ BlinkOverflow11
    \/ BlinkReturn11
    \/ CountStone11
    \/ CountOverflow11
    \/ CountReturn11

Spec11 == Init11 /\ [][Next11]_vars

(***************************************************************************)
(* Day 11 claims                                                           *)
(***************************************************************************)
\* C14: for every initial arrangement and every number n of blinks,
\* count_evolved_stones(n) equals the length of the arrangement that
\* simulate_blinking(n) produces from the same start.
C14_SameCount ==
    pc11 = "done" => result11 = Some(Len(arrangement))

(***************************************************************************)
(* Day 12: Garden::find_regions, flood_fill and calculate_perimeter        *)
(* (day_12.rs), with impl Add<Direction> for (usize, usize)                *)
(* (directions.rs).                                                        *)
(*                                                                         *)
(* usize arithmetic wraps modulo 2^64.  The model keeps a word of 16 bits: *)
(* all that matters is that 0 - 1 wraps to a value no side of a garden     *)
(* reaches.                                                                *)
(***************************************************************************)
WordBits12 == 16

\* usize::wrapping_add(a, d as usize) for d in -1..1
wrapping_add(a, d) == (a + d) % (2 ^ WordBits12)

\* impl Add<Direction> for (usize, usize): the pair is taken as (y, x)
AddDirection(p, d) ==
    <<wrapping_add(p[1], Delta(d)[1]), wrapping_add(p[2], Delta(d)[2])>>

\* the array `neighbors` of flood_fill and of calculate_perimeter
Neighbors12(p) ==
    <<AddDirection(p, "Left"), AddDirection(p, "Right"),
      AddDirection(p, "Down"), AddDirection(p, "Up")>>

\* self.grid[y][x]
PlantAt(g, y, x) == g.grid[y + 1][x + 1]

\* Garden::flood_fill, on the state st = [visited, region]; visited is the
\* set of the pairs (y, x) that are set to true
RECURSIVE flood_fill(_, _, _, _, _)
RECURSIVE FillNeighbors(_, _, _, _, _)
flood_fill(g, x, y, plant_type, st) ==
    IF <<y, x>> \in st.visited \/ PlantAt(g, y, x) # plant_type THEN st
    ELSE FillNeighbors(g, Neighbors12(<<x, y>>), 1, plant_type,
                       [visited |-> st.visited \cup {<<y, x>>},
                        region |-> Append(st.region, <<y, x>>)])

\* flood_fill: for (nx, ny) in neighbors
FillNeighbors(g, ns, k, plant_type, st) ==
    IF k > Len(ns) THEN st
    ELSE LET nx == ns[k][1]
             ny == ns[k][2]
         IN FillNeighbors(g, ns, k + 1, plant_type,
                IF nx < g.width /\ ny < g.height
                THEN flood_fill(g, nx, ny, plant_type, st)
                ELSE st)

\* Garden::find_regions: the loops over y and x, from cell number n on
\* (n = y * width + x); acc = [visited, regions]
RECURSIVE FindFrom(_, _, _)
FindFrom(g, n, acc) ==
    IF n >= g.height * g.width THEN acc.regions
    ELSE LET y == n \div g.width
             x == n % g.width
         IN IF <<y, x>> \in acc.visited THEN FindFrom(g, n + 1, acc)
            ELSE LET st == flood_fill(g, x, y, PlantAt(g, y, x),
                                      [visited |-> acc.visited, region |-> <<>>])
                 IN FindFrom(g, n + 1,
                       [visited |-> st.visited,
                        regions |-> IF st.region # <<>>
                                    THEN Append(acc.regions, st.region)
                                    ELSE acc.regions])

find_regions(g) == FindFrom(g, 0, [visited |-> {}, regions |-> <<>>])

\* calculate_perimeter: the test on one neighbour (nx, ny)
CountsSide(g, region_set, n) ==
    \/ n[1] >= g.width
    \/ n[2] >= g.height
    \/ n \notin region_set

\* Garden::calculate_perimeter
calculate_perimeter(g, region) ==
    LET region_set == Range(region)
        sides(k) == Cardinality({j \in 1..4 :
                        CountsSide(g, region_set, Neighbors12(region[k])[j])})
        sum[k \in 0..Len(region)] ==
            IF k = 0 THEN 0 ELSE sum[k - 1] + sides(k)
    IN sum[Len(region)]

\* Garden::from_str on a rectangular text
Init12Own ==
    /\ \E h \in 1..MaxSide12, w \in 1..MaxSide12 :
         \E grid \in [1..h -> [1..w -> 1..MaxPlants12]] :
            garden = [grid |-> grid, height |-> h, width |-> w]
    /\ regions = <<>>
    /\ perimeters = <<>>
    /\ pc12 = "find"

\* find_regions is called
FindRegions12 ==
    /\ pc12 = "find"
    /\ regions' = find_regions(garden)
    /\ pc12' = "measure"
    /\ UNCHANGED <<garden, perimeters, other12>>

\* calculate_perimeter is called on the next region
Perimeter12 ==
    /\ pc12 = "measure"
    /\ regions # <<>>
    /\ perimeters' = Append(perimeters,
            <<Head(regions), calculate_perimeter(garden, Head(regions))>>)
    /\ regions' = Tail(regions)
    /\ UNCHANGED <<garden, pc12, other12>>

\* every region is measured
Measured12 ==
    /\ pc12 = "measure"
    /\ regions = <<>>
    /\ pc12' = "done"
    /\ UNCHANGED <<garden, regions, perimeters, other12>>

Init12 == Init12Own /\ Rest12

Next12 ==
    \/ FindRegions12
    \/ Perimeter12
    \/ Measured12

Spec12 == Init12 /\ [][Next12]_vars

(***************************************************************************)
(* Day 12 claims                                                           *)
(***************************************************************************)
\* the unit edges between a cell of the set R of cells (y, x) and a
\* position outside R, inside the grid or not
BoundaryEdges(R) ==
    {e \in R \X Dirs :
        <<e[1][1] + Delta(e[2])[1], e[1][2] + Delta(e[2])[2]>> \notin R}

\* C15: for every rectangular garden, square or not, and every region that
\* find_regions returns, calculate_perimeter returns the number of unit
\* edges between a cell of the region and a position outside the region or
\* outside the grid; an edge between two cells of the region is not counted.
C15_Perimeter ==
    \A k \in 1..Len(perimeters) :
        perimeters[k][2] = Cardinality(BoundaryEdges(Range(perimeters[k][1])))

(***************************************************************************)
(* Day 13: ClawMachine::is_solvable (day_13.rs)                            *)
(*                                                                         *)
(* The coordinates of the model are small: no i64 operation overflows.     *)
(***************************************************************************)
\* i64 `/` with a divisor that is not 0: the quotient truncated towards zero
Quot(a, b) == IF b > 0 THEN TruncDiv(a, b) ELSE TruncDiv(-a, -b)

\* is_solvable: the locals
prize_x(m, off) == m.prize.x + off
prize_y(m, off) == m.prize.y + off
det(m) == m.button_a.x * m.button_b.y - m.button_a.y * m.button_b.x
PressA(m, off) ==
    Quot(prize_x(m, off) * m.button_b.y - prize_y(m, off) * m.button_b.x, det(m))
PressB(m, off) ==
    Quot(m.button_a.x * prize_y(m, off) - m.button_a.y * prize_x(m, off), det(m))
check_x(m, off) == m.button_a.x * PressA(m, off) + m.button_b.x * PressB(m, off)
check_y(m, off) == m.button_a.y * PressA(m, off) + m.button_b.y * PressB(m, off)

\* is_solvable: the verification of the last if
Verified(m, off) ==
    check_x(m, off) = prize_x(m, off) /\ check_y(m, off) = prize_y(m, off)

\* ClawMachine::from_str: the pattern takes unsigned numbers
Init13Own ==
    /\ \E ax \in 0..MaxCoord13, ay \in 0..MaxCoord13, bx \in 0..MaxCoord13,
          by \in 0..MaxCoord13, px \in 0..MaxCoord13, py \in 0..MaxCoord13 :
         machine = [button_a |-> [x |-> ax, y |-> ay],
                    button_b |-> [x |-> bx, y |-> by],
                    prize |-> [x |-> px, y |-> py]]
    /\ offset \in 0..MaxOffset13
    /\ pc13 = "call"
    /\ result13 = None

\* det == 0: return None
Singular13 ==
    /\ pc13 = "call"
    /\ det(machine) = 0
    /\ result13' = None
    /\ pc13' = "done"
    /\ UNCHANGED <<machine, offset, other13>>

\* the verification passes: return Some((a, b))
Solved13 ==
    /\ pc13 = "call"
    /\ det(machine) # 0
    /\ Verified(machine, offset)
    /\ result13' = Some(<<PressA(machine, offset), PressB(machine, offset)>>)
    /\ pc13' = "done"
    /\ UNCHANGED <<machine, offset, other13>>

\* the verification fails: return None
Unverified13 ==
    /\ pc13 = "call"
    /\ det(machine) # 0
    /\ ~Verified(machine, offset)
    /\ result13' = None
    /\ pc13' = "done"
    /\ UNCHANGED <<machine, offset, other13>>

Init13 == Init13Own /\ Rest13

Next13 ==
    \/ Singular13
    \/ Solved13
    \/ Unverified13

Spec13 == Init13 /\ [][Next13]_vars

(***************************************************************************)
(* Day 13 claims                                                           *)
(***************************************************************************)
\* (a, b) solves the two equations of the machine
Solves(m, off, a, b) ==
    /\ a * m.button_a.x + b * m.button_b.x = m.prize.x + off
    /\ a * m.button_a.y + b * m.button_b.y = m.prize.y + off

\* when the determinant is not 0, Cramer's rule bounds both presses by the
\* largest product of a prize coordinate and a button coordinate
Span13 == (MaxCoord13 + MaxOffset13) * MaxCoord13

\* the integer solutions within that bound

IntegerSolutions(m, off) ==
    {s \in ((-Span13)..Span13) \X ((-Span13)..Span13) : Solves(m, off, s[1], s[2])}

\* C16: whenever is_solvable returns Some((a, b)), a and b are counts of
\* button presses: non-negative integers that solve both equations; it
\* returns None when the determinant is 0 or the unique solution is not
\* integral.
C16_Solvable ==
    pc13 = "done" =>
        /\ \A s \in result13 :
            /\ s[1] >= 0
            /\ s[2] >= 0
            /\ Solves(machine, offset, s[1], s[2])
        /\ result13 = None <=>
            (det(machine) = 0 \/ IntegerSolutions(machine, offset) = {})

(***************************************************************************)
(* Day 23: Graph::find_maximum_clique and Graph::bron_kerbosch             *)
(* (day_23.rs)                                                             *)
(*                                                                         *)
(* Node names are numbers, ordered as the strings are.  A HashSet is       *)
(* iterated in an order that the program does not fix: the pivot is any    *)
(* vertex with the largest key, and the loop takes the candidates in any   *)
(* order.  A call of bron_kerbosch in progress is a frame                  *)
(* [clique, candidates, excluded, phase, pivot, todo, via]: todo is the    *)
(* part of candidates_copy not yet iterated, via the vertex v of the       *)
(* caller's loop.                                                          *)
(***************************************************************************)
\* Graph::from_str / add_edge: the adjacency lists of a set of edges
AdjOf(edges) ==
    [n \in UNION edges |-> {m \in UNION edges : {n, m} \in edges}]

\* a filter that keeps every vertex
ConnectedAll(adj, S, v) == S

\* .filter(|&u| self.adj_list[v].contains(u)) on a set
Connected(adj, S, v) == {u \in S : u \in adj[v]}

\* the key of max_by_key: the number of candidates connected to v
PivotKey(adj, candidates, v) == Cardinality(Connected(adj, candidates, v))

\* the vertices max_by_key can return
Pivots(adj, candidates, excluded) ==
    {v \in candidates \cup excluded :
        \A u \in candidates \cup excluded :
            PivotKey(adj, candidates, u) <= PivotKey(adj, candidates, v)}

\* the frame of a call that has just been entered
Frame(clique, candidates, excluded, via) ==
    [clique |-> clique, candidates |-> candidates, excluded |-> excluded,
     phase |-> "enter", pivot |-> 0, todo |-> {}, via |-> via]

\* result.sort() on the collected set
RECURSIVE Sorted(_)
Sorted(S) ==
    IF S = {} THEN <<>>
    ELSE LET m == Min(S) IN <<m>> \o Sorted(S \ {m})

Top23 == stack23[Len(stack23)]

\* the innermost call returns with max_clique mc: its caller removes v from
\* clique and puts it in excluded; when the outermost call returns,
\* find_maximum_clique sorts and returns max_clique
Return(mc) ==
    /\ max_clique' = mc
    /\ IF Len(stack23) = 1
       THEN /\ stack23' = <<>>
            /\ pc23' = "done"
            /\ result23' = Some(Sorted(mc))
       ELSE /\ stack23' = [SubSeq(stack23, 1, Len(stack23) - 1)
                              EXCEPT ![Len(stack23) - 1].excluded =
                                        @ \cup {Top23.via}]
            /\ UNCHANGED <<pc23, result23>>

Init23Own ==
    /\ \E edges \in SUBSET {e \in SUBSET (1..MaxNodes23) : Cardinality(e) = 2} :
         adj_list = AdjOf(edges)
    /\ stack23 = <<Frame({}, DOMAIN adj_list, {}, 0)>>
    /\ max_clique = {}
    /\ pc23 = "search"
    /\ result23 = None

\* bron_kerbosch: candidates and excluded are empty
Base23 ==
    /\ pc23 = "search"
    /\ Top23.phase = "enter"
    /\ Top23.candidates = {} /\ Top23.excluded = {}
    /\ Return(IF Cardinality(Top23.clique) > Cardinality(max_clique)
              THEN Top23.clique ELSE max_clique)
    /\ UNCHANGED <<adj_list, other23>>

\* bron_kerbosch: the pivot is chosen and candidates is copied
Pivot23 ==
    /\ pc23 = "search"
    /\ Top23.phase = "enter"
    /\ ~(Top23.candidates = {} /\ Top23.excluded = {})
    /\ \E p \in Pivots(adj_list, Top23.candidates, Top23.excluded) :
         stack23' = [stack23 EXCEPT ![Len(stack23)] =
                        [@ EXCEPT !.phase = "loop", !.pivot = p,
                                  !.todo = Top23.candidates]]
    /\ UNCHANGED <<adj_list, max_clique, pc23, result23, other23>>

\* bron_kerbosch: a candidate connected to the pivot is passed over
Skip23 ==
    /\ pc23 = "search"
    /\ Top23.phase = "loop"
    /\ \E v \in Top23.todo :
         /\ v \in adj_list[Top23.pivot]
         /\ stack23' = [stack23 EXCEPT ![Len(stack23)].todo = @ \ {v}]
    /\ UNCHANGED <<adj_list, max_clique, pc23, result23, other23>>

\* bron_kerbosch: a candidate not connected to the pivot joins the clique
\* and the recursive call is made
Descend23 ==
    /\ pc23 = "search"
    /\ Top23.phase = "loop"
    /\ \E v \in Top23.todo :
         /\ v \notin adj_list[Top23.pivot]
         /\ LET candidates == Top23.candidates \ {v}
            IN stack23' =
                 Append([stack23 EXCEPT ![Len(stack23)].todo = @ \ {v},
                                        ![Len(stack23)].candidates = candidates],
                        Frame(Top23.clique \cup {v},
                              Connected(adj_list, candidates, v),
                              Connected(adj_list, Top23.excluded, v),
                              v))
    /\ UNCHANGED <<adj_list, max_clique, pc23, result23, other23>>

\* bron_kerbosch: the loop is over
LoopEnd23 ==
    /\ pc23 = "search"
    /\ Top23.phase = "loop"
    /\ Top23.todo = {}
    /\ Return(max_clique)
    /\ UNCHANGED <<adj_list, other23>>

Init23 == Init23Own /\ Rest23

Next23 ==
    \/ Base23
    \/ Pivot23
    \/ Skip23
    \/ Descend23
    \/ LoopEnd23

Spec23 == Init23 /\ [][Next23]_vars

(***************************************************************************)
(* Day 23 claims                                                           *)
(***************************************************************************)
\* the sets of nodes that are pairwise adjacent
Cliques(adj) ==
    {S \in SUBSET DOMAIN adj : \A a \in S, b \in S : a # b => b \in adj[a]}

\* the size of a largest clique
MaxCliqueSize(adj) ==
    CHOOSE n \in 0..Cardinality(DOMAIN adj) :
        /\ \E S \in Cliques(adj) : Cardinality(S) = n
        /\ \A S \in Cliques(adj) : Cardinality(S) <= n

\* C17: find_maximum_clique returns a sorted list of nodes that are
\* pairwise adjacent and whose length is the size of the largest clique of
\* the graph, whatever pivot and iteration order the hash sets give.
C17_MaximumClique ==
    pc23 = "done" =>
        \A r \in result23 :
            /\ \A i \in 1..Len(r), j \in 1..Len(r) : i < j => r[i] < r[j]
            /\ Range(r) \in Cliques(adj_list)
            /\ Len(r) = MaxCliqueSize(adj_list)

\* a finished run on a triangle with a pendant node: maximal cliques of
\* three and of two nodes, and the larger one is returned
C17_Witness ==
    /\ pc23 = "done"
    /\ \A r \in result23 : Len(r) = 3
    /\ Cardinality(DOMAIN adj_list) = 4
    /\ \E n \in DOMAIN adj_list : Cardinality(adj_list[n]) = 1

(***************************************************************************)
(* day_20.rs: PathFinder::find_cheats and PathFinder::find_cheats_from.    *)
(* usize arithmetic wraps modulo 2^64 where overflow is not checked.  The  *)
(* model keeps a word of 16 bits: all that matters is that a difference    *)
(* below 0 wraps to a value no index of the path reaches.                  *)
(***************************************************************************)
WordBits20p == 16

\* a - b on usize where overflow is not checked
wrapping_sub(a, b) == (a - b + 2 ^ WordBits20p) % (2 ^ WordBits20p)

\* lines 270-287: the while loop; start_time and normal_end_time count from
\* 0.  On a path of 4-adjacent cells the Manhattan distance of two cells is
\* at most the distance of their indices, so line 279 cannot go below 0.
RECURSIVE CheatLoop(_, _, _, _)
CheatLoop(f, start_time, normal_end_time, viable) ==
    IF ~(normal_end_time < Len(f.path))
    THEN viable
    ELSE LET cheat_start == f.path[start_time + 1]
             cheat_end == f.path[normal_end_time + 1]
             cheat_dist == manhattan_distance(cheat_start, cheat_end)
         IN  IF cheat_dist > f.max_cheat_time
             THEN CheatLoop(f, start_time,
                            normal_end_time + (cheat_dist - f.max_cheat_time),
                            viable)
             ELSE LET cheat_end_time == start_time + cheat_dist
                      savings == normal_end_time - cheat_end_time
                  IN  CheatLoop(f, start_time, normal_end_time + 1,
                                IF savings >= f.min_savings
                                THEN viable + 1 ELSE viable)

\* line 266: self.path.len() - min_savings overflows
CheatsPanic(f, checked) == checked /\ f.min_savings > Len(f.path)

\* lines 257-289, when line 266 does not panic
find_cheats_from(f, start_time) ==
    IF start_time > wrapping_sub(Len(f.path), f.min_savings)
    THEN 0
    ELSE CheatLoop(f, start_time, start_time + f.min_savings, 0)

\* Sum for usize: the fold of one item into a partial sum, and the
\* reduction of the workers' partial sums
AddLast(acc, v) == v
Add20p(acc, v) == acc + v

RECURSIVE Reduce20p(_, _)
Reduce20p(ws, n) ==
    IF n = 0 THEN 0 ELSE Add20p(Reduce20p(ws, n - 1), ws[n].acc)

\* The paths AStar::find_path can return inside a grid of MaxSide20p cells a
\* side: walks over 4-adjacent cells in which two cells are adjacent only
\* when they follow each other (a shortest path has no shortcut).
Grid20p == (1..MaxSide20p) \X (1..MaxSide20p)

Extends20p(w, c) ==
    /\ Adjacent4(w[Len(w)], c)
    /\ \A i \in 1..(Len(w) - 1) : w[i] # c /\ ~Adjacent4(w[i], c)

RECURSIVE Paths20p(_)
Paths20p(n) ==
    IF n = 1 THEN {<<c>> : c \in Grid20p}
    ELSE LET shorter == Paths20p(n - 1)
         IN  shorter \cup
             UNION {{Append(w, c) : c \in {d \in Grid20p : Extends20p(w, d)}} :
                        w \in {v \in shorter : Len(v) = n - 1}}

\* PathFinder::new and the entry of find_cheats: no start_time is handed
\* out yet and every worker's partial sum is 0
Init20pOwn ==
    /\ \E p \in Paths20p(MaxPath20p) :
         \E mc \in 1..MaxCheat20p, ms \in 0..MaxSavings20p :
            finder = [path |-> p, max_cheat_time |-> mc, min_savings |-> ms]
    /\ checked20p \in BOOLEAN
    /\ bridge = 0
    /\ workers = [w \in 1..MaxWorkers20p |-> [job |-> None, acc |-> 0]]
    /\ pc20p = "run"
    /\ result20p = None

\* lines 240-241: a worker takes the next start_time from the bridged range
Take20p(w) ==
    /\ pc20p = "run"
    /\ workers[w].job = None
    /\ bridge < Len(finder.path)
    /\ workers' = [workers EXCEPT ![w].job = Some(bridge)]
    /\ bridge' = bridge + 1
    /\ UNCHANGED <<finder, checked20p, pc20p, result20p>>
    /\ UNCHANGED other20p

\* lines 242-243: the worker maps its start_time and folds the count into
\* its partial sum
Count20p(w) ==
    /\ pc20p = "run"
    /\ workers[w].job # None
    /\ ~CheatsPanic(finder, checked20p)
    /\ workers' = [workers EXCEPT
            ![w].acc = Add20p(workers[w].acc,
                              find_cheats_from(finder, Unwrap(workers[w].job))),
            ![w].job = None]
    /\ UNCHANGED <<finder, checked20p, bridge, pc20p, result20p>>
    /\ UNCHANGED other20p

\* line 266 panics in a worker; the panic is passed on to the caller
Panic20p(w) ==
    /\ pc20p = "run"
    /\ workers[w].job # None
    /\ CheatsPanic(finder, checked20p)
    /\ pc20p' = "panic"
    /\ UNCHANGED <<finder, checked20p, bridge, workers, result20p>>
    /\ UNCHANGED other20p

\* line 243: the range is used up and every worker is through; the partial
\* sums are reduced to the result
Sum20p ==
    /\ pc20p = "run"
    /\ bridge = Len(finder.path)
    /\ \A w \in DOMAIN workers : workers[w].job = None
    /\ result20p' = Some(Reduce20p(workers, MaxWorkers20p))
    /\ pc20p' = "done"
    /\ UNCHANGED <<finder, checked20p, bridge, workers>>
    /\ UNCHANGED other20p

Init20p == Init20pOwn /\ Rest20p

Next20p ==
    \/ \E w \in 1..MaxWorkers20p : Take20p(w)
    \/ \E w \in 1..MaxWorkers20p : Count20p(w)
    \/ \E w \in 1..MaxWorkers20p : Panic20p(w)
    \/ Sum20p

Spec20p == Init20p /\ [][Next20p]_vars

(***************************************************************************)
(* Day 20, PathFinder: claims                                              *)
(***************************************************************************)
\* the sequential sum of find_cheats_from over start_time in 0..n-1
RECURSIVE SequentialSum(_, _)
SequentialSum(f, n) ==
    IF n = 0 THEN 0
    ELSE SequentialSum(f, n - 1) + find_cheats_from(f, n - 1)

\* C22: whatever start_times each worker takes and however the workers'
\* steps interleave, find_cheats returns the sequential sum of
\* find_cheats_from over 0..path.len(), and it panics only when the
\* sequential sum panics; no step changes the path or the arguments, and a
\* worker's step changes no other worker's job or partial sum.
C22_ParallelSum ==
    /\ [](pc20p = "done" =>
            /\ ~CheatsPanic(finder, checked20p)
            /\ result20p = Some(SequentialSum(finder, Len(finder.path))))
    /\ [](pc20p = "panic" => CheatsPanic(finder, checked20p))
    /\ [][/\ finder' = finder
          /\ \A w \in 1..MaxWorkers20p, v \in 1..MaxWorkers20p :
                (pc20p = "run" /\ workers'[w] # workers[w] /\ v # w) =>
                    workers'[v] = workers[v]]_vars

\* C22 witness: find_cheats has returned a count of several cheats that
\* each save two steps or more, to which every worker contributed.
C22_Witness ==
    /\ pc20p = "done"
    /\ finder.min_savings >= 2
    /\ Unwrap(result20p) >= 2
    /\ \A w \in 1..MaxWorkers20p : workers[w].acc >= 1

====
